---------------------------- MODULE Spec2Model ----------------------------
(***************************************************************************)
(* Model of the retrieval engine of fsquiztool:                            *)
(*   - the incremental crawler of the FS-Quiz lookup route                 *)
(*     (getIndexState, fetchQuestionById, ensureIndexedUntilEnd, POST),    *)
(*   - the diversification step of searchDocs (lib/docs/index.ts).         *)
(* Specification Spec runs the crawler with one request at a time;         *)
(* SpecSearch runs searchDocs on bounded corpora.                          *)
(***************************************************************************)
EXTENDS Integers, Sequences, FiniteSets, TLC

(***************************************************************************)
(* Program constants of ensureIndexedUntilEnd.                             *)
(***************************************************************************)
maxConsecutiveNotFound == 4
minIndexedBeforeStop == 200
batchSize == 8

(***************************************************************************)
(* Program constants of searchDocs.                                        *)
(***************************************************************************)
perFileCap == 4
defaultLimit == 12
maxCandidates == 250

(***************************************************************************)
(* Program constants of expandHeaderContext.                               *)
(***************************************************************************)
defaultMaxTotal == 28
defaultMaxPerHeader == 3
defaultMaxExtraTotal == 8
defaultMaxExtraChars == 5000
maxHeaderChars == 260
lookupLimit == 1
maxLen == 900

(***************************************************************************)
(* Bounds of the model.                                                    *)
(***************************************************************************)
\* the ranked input of expandHeaderContext holds 1..MaxRetrieved chunks
MaxRetrieved == 3
MaxItems == 2
MaxTerms == 2
MaxMtime == 2
MaxModifications == 3
MaxLoads == 3
\* the limit passed to searchDocs ranges over 0..MaxLimit, or is left out
MaxLimit == 6
\* merged scores of the candidate chunks range over 1..MaxScore
MaxScore == 2
\* the crawl is followed up to this identifier
MaxId == 232
\* time budgets of a call range over 0..MaxBudget (clock ticks)
MaxBudget == 1
\* at most this many batches fail with a fetch error in one behaviour
MaxErrors == 1

\* request slots: one request at a time, or two that interleave
OneCall == {1}
TwoCalls == {1, 2}
Budgets == 0..MaxBudget

(***************************************************************************)
(* The external question source: the set of identifiers that hold a        *)
(* record (every other identifier answers 404).  Chosen once, at Init.     *)
(***************************************************************************)
Sources ==
    { 1..16,                          \* fewer than 200 records
      1..200,                         \* ends on a count of exactly 200
      1..206,                         \* the end streak crosses a batch boundary
      (1..208) \ (105..112),          \* a whole batch of 404s below 200 entries
      (1..200) \cup {207},            \* a record behind 4 consecutive 404s
      1..216 }

\* identifiers whose fetch may fail with a transport error or a non-OK status
FlakyIds == {3, 203, 211}

VARIABLES
    source,           \* the set of ids for which the source holds a record
    complete,         \* state.complete
    nextId,           \* state.nextId
    notFoundStreak,   \* state.notFoundStreak
    items,            \* state.items, as the sequence of the entries' ids
    pc,               \* per request: "idle", "loop" (top of while), "await"
    timeBudgetMs,     \* per request: opts.timeBudgetMs
    elapsed,          \* per request: Date.now() - startedAt
    startId,          \* per request: startId of the batch in flight
    newlyIndexed,     \* per request: the local counter newlyIndexed
    issued,           \* per request, history: batches started by this call
    recovered,        \* per request, history: getIndexState un-latched the state
    response,         \* per request: the last response of POST
    fetchLog,         \* history: the ids fetched, in the order of issue
    processed,        \* history: ids whose fetch result the for loop handled
    lastBatch,        \* history: what the last resolved batch did
    errors            \* history: number of batches that failed

VARIABLES
    searchPc,         \* "ready" before searchDocs has run, "done" after
    searchParams,     \* the parameters and the merged scores of the request
    searchResult      \* what searchDocs returned, with a trace of its passes

searchVars == <<searchPc, searchParams, searchResult>>

VARIABLES
    expandPc,         \* "ready" before expandHeaderContext has run, "done" after
    expandArgs,       \* its arguments: the ranked input and the options
    expandResult      \* what it returned, with a trace of the extras and pins

expandVars == <<expandPc, expandArgs, expandResult>>

VARIABLES
    matchPc,          \* "ready" before the lookup has matched, "done" after
    matchArgs,        \* the query text and state.items, as the texts of the entries
    matchResult       \* the response of POST, with a trace of every score

matchVars == <<matchPc, matchArgs, matchResult>>

VARIABLES
    excerptPc,        \* "ready" before makeExcerpt has run, "done" after
    excerptArgs,      \* the length of the collapsed text and the terms with their offsets
    excerptResult     \* the excerpt, as the slice taken and its two markers

excerptVars == <<excerptPc, excerptArgs, excerptResult>>

VARIABLES
    dataPath,         \* what dataPath() returns now (DOCS_INDEX_PATH or the default)
    disk,             \* per path: the bundle file, if any, with its mtime and content
    fredquizIndex,    \* globalThis.__fredquiz_index, the cached LoadedIndex
    loadPc,           \* "idle", or "read" while a load awaits fs.readFile
    loadLocal,        \* indexPath and mtimeMs of the load in flight
    loadReturn,       \* how the last load ended and the instance it returned
    loads,            \* history: number of calls of loadIndex
    reads,            \* history: number of calls of fs.readFile
    modifications     \* history: number of changes made to the files and the path

cacheVars == <<dataPath, disk, fredquizIndex, loadPc, loadLocal, loadReturn, loads, reads, modifications>>

\* the request slots of the behaviour at hand
Calls == DOMAIN pc

VARIABLES
    syncLock,         \* globalThis.__fredquiz_openai_sync_lock: 0 = undefined, else the caller whose promise it holds
    syncPc,           \* per caller: idle, waiting (await lock), ready (promise resolved), inside
    syncAwaited,      \* per caller: the caller whose promise it awaits, 0 = none
    syncFn,           \* per caller: the function it called
    syncResult        \* per caller: how its last call ended

syncVars == <<syncLock, syncPc, syncAwaited, syncFn, syncResult>>

crawlVars == <<source, complete, nextId, notFoundStreak, items, pc, timeBudgetMs,
               elapsed, startId, newlyIndexed, issued, recovered, response,
               fetchLog, processed, lastBatch, errors>>

Min(a, b) == IF a < b THEN a ELSE b

\* the variables of the other parts, which the actions of one part leave alone
nonCrawlVars == <<searchVars, expandVars, matchVars, excerptVars, cacheVars, syncVars>>
nonSearchVars == <<crawlVars, expandVars, matchVars, excerptVars, cacheVars, syncVars>>
nonExpandVars == <<crawlVars, searchVars, matchVars, excerptVars, cacheVars, syncVars>>
nonMatchVars == <<crawlVars, searchVars, expandVars, excerptVars, cacheVars, syncVars>>
nonExcerptVars == <<crawlVars, searchVars, expandVars, matchVars, cacheVars, syncVars>>
nonCacheVars == <<crawlVars, searchVars, expandVars, matchVars, excerptVars, syncVars>>
nonSyncVars == <<crawlVars, searchVars, expandVars, matchVars, excerptVars, cacheVars>>

NoResponse == [status |-> 0, newlyIndexed |-> 0, indexedCount |-> 0, complete |-> FALSE]
NoBatch == [startId |-> 0, outcome |-> "none", stoppedAt |-> 0, itemsBefore |-> 0,
            streakBefore |-> 0, late |-> FALSE]

(***************************************************************************)
(* fetchQuestionById: 404 -> "not_found", otherwise the indexed question.  *)
(* (The throw on a non-OK status is the action BatchError.)                *)
(***************************************************************************)
fetchQuestionById(id) ==
    IF id \in source THEN [kind |-> "question", id |-> id]
                     ELSE [kind |-> "not_found", id |-> id]

\* faulty variant of BatchIds: the batch starts one identifier too late
BatchIdsFromOne(start) == [i \in 1..batchSize |-> start + i]

\* const ids = Array.from({ length: batchSize }, (_, i) => startId + i)
BatchIds(start) == [i \in 1..batchSize |-> start + i - 1]

\* faulty variant of AdvanceCursor: the cursor jumps over the next batch too
AdvanceCursorFar(n) == n + 2 * batchSize

\* faulty variant of AdvanceCursor: the cursor is written back unchanged
AdvanceCursorNone(n) == n

\* faulty variant of AdvanceCursor: the cursor stops on the last id of the batch
AdvanceCursorShort(n) == n + batchSize - 1

\* state.nextId += batchSize
AdvanceCursor(n) == n + batchSize

\* faulty variant of ShouldStop: the test of the number of indexed entries is lost
ShouldStopOnStreakOnly(streak, count) == streak >= maxConsecutiveNotFound

\* the stop test of the for loop (lines 221-224)
ShouldStop(streak, count) ==
    streak >= maxConsecutiveNotFound /\ count >= minIndexedBeforeStop

\* faulty variant of BudgetExceeded: the loop also ends when the budget is just reached
BudgetExceededOrReached(el, budget) == el >= budget

\* the budget test at the top of the while loop (line 209): TRUE = break
BudgetExceeded(el, budget) == el > budget

\* faulty variant of ProcessResults: the break after state.complete = true is lost
RECURSIVE ProcessResultsNoBreak(_, _, _)
ProcessResultsNoBreak(results, i, st) ==
    IF i > Len(results) THEN st
    ELSE LET res == results[i] IN
         IF res.kind = "not_found"
         THEN LET s1 == [st EXCEPT !.notFoundStreak = @ + 1,
                                   !.processed = @ \cup {res.id}]
              IN IF s1.notFoundStreak >= maxConsecutiveNotFound
                    /\ Len(s1.items) >= minIndexedBeforeStop
                 THEN ProcessResultsNoBreak(results, i + 1,
                         [s1 EXCEPT !.complete = TRUE,
                                    !.stoppedAt = IF @ = 0 THEN res.id ELSE @])
                 ELSE ProcessResultsNoBreak(results, i + 1, s1)
         ELSE ProcessResultsNoBreak(results, i + 1,
                 [st EXCEPT !.notFoundStreak = 0,
                            !.items = Append(@, res.id),
                            !.newlyIndexed = @ + 1,
                            !.processed = @ \cup {res.id}])

(***************************************************************************)
(* The for loop over the results of one batch (lines 216-239), from        *)
(* position i on.  st carries state.complete / notFoundStreak / items,     *)
(* the call's newlyIndexed and the history of processed ids.               *)
(***************************************************************************)
RECURSIVE ProcessResults(_, _, _)
ProcessResults(results, i, st) ==
    IF i > Len(results) THEN st
    ELSE LET res == results[i] IN
         IF res.kind = "not_found"
         THEN LET s1 == [st EXCEPT !.notFoundStreak = @ + 1,
                                   !.processed = @ \cup {res.id}]
              IN IF ShouldStop(s1.notFoundStreak, Len(s1.items))
                 THEN [s1 EXCEPT !.complete = TRUE, !.stoppedAt = res.id]
                 ELSE ProcessResults(results, i + 1, s1)
         ELSE ProcessResults(results, i + 1,
                 [st EXCEPT !.notFoundStreak = 0,
                            !.items = Append(@, res.id),
                            !.newlyIndexed = @ + 1,
                            !.processed = @ \cup {res.id}])

\* faulty variant of getIndexState: every complete state is restarted from id 1
getIndexStateResetComplete(st) ==
    IF st.complete
    THEN [complete |-> FALSE, nextId |-> 1, notFoundStreak |-> 0, items |-> <<>>]
    ELSE IF st.nextId < 1 THEN [st EXCEPT !.nextId = 1] ELSE st

\* faulty variant of getIndexState: the reset leaves the cursor where it was
getIndexStateKeepCursor(st) ==
    IF st.complete /\ Len(st.items) = 0
    THEN [complete |-> FALSE, nextId |-> st.nextId, notFoundStreak |-> 0, items |-> <<>>]
    ELSE IF st.nextId < 1 THEN [st EXCEPT !.nextId = 1] ELSE st

(***************************************************************************)
(* getIndexState (lines 138-159) applied to an existing state: the reset   *)
(* of a state that is complete with no items, and the repair of nextId.    *)
(***************************************************************************)
getIndexState(st) ==
    IF st.complete /\ Len(st.items) = 0
    THEN [complete |-> FALSE, nextId |-> 1, notFoundStreak |-> 0, items |-> <<>>]
    ELSE IF st.nextId < 1 THEN [st EXCEPT !.nextId = 1] ELSE st

CurrentState ==
    [complete |-> complete, nextId |-> nextId, notFoundStreak |-> notFoundStreak,
     items |-> items]

\* the JSON body of POST's 200 response (lines 327-346), crawl metrics only
OkResponse(n) ==
    [status |-> 200, newlyIndexed |-> n, indexedCount |-> Len(items),
     complete |-> complete]

\* the 502 response of POST's catch block (lines 347-350)
ErrorResponse ==
    [status |-> 502, newlyIndexed |-> 0, indexedCount |-> 0, complete |-> FALSE]

InitCrawl ==
    /\ source \in Sources
    /\ complete = FALSE
    /\ nextId = 1
    /\ notFoundStreak = 0
    /\ items = <<>>
    /\ pc = [c \in OneCall |-> "idle"]
    /\ timeBudgetMs = [c \in OneCall |-> 0]
    /\ elapsed = [c \in OneCall |-> 0]
    /\ startId = [c \in OneCall |-> 0]
    /\ newlyIndexed = [c \in OneCall |-> 0]
    /\ issued = [c \in OneCall |-> 0]
    /\ recovered = [c \in OneCall |-> FALSE]
    /\ response = [c \in OneCall |-> NoResponse]
    /\ fetchLog = <<>>
    /\ processed = {}
    /\ lastBatch = NoBatch
    /\ errors = 0

(***************************************************************************)
(* POST calls ensureIndexedUntilEnd (lines 198-206): getIndexState, then   *)
(* the immediate return when the state is complete, else the loop starts.  *)
(***************************************************************************)
CallStart(c, budget) ==
    /\ pc[c] = "idle"
    /\ LET st == getIndexState(CurrentState) IN
       /\ complete' = st.complete
       /\ nextId' = st.nextId
       /\ notFoundStreak' = st.notFoundStreak
       /\ items' = st.items
       /\ timeBudgetMs' = [timeBudgetMs EXCEPT ![c] = budget]
       /\ elapsed' = [elapsed EXCEPT ![c] = 0]
       /\ newlyIndexed' = [newlyIndexed EXCEPT ![c] = 0]
       /\ issued' = [issued EXCEPT ![c] = 0]
       /\ recovered' = [recovered EXCEPT ![c] = complete /\ ~st.complete]
       /\ startId' = [startId EXCEPT ![c] = 0]
       /\ IF st.complete
          THEN /\ pc' = pc
               /\ response' = [response EXCEPT ![c] =
                     [status |-> 200, newlyIndexed |-> 0,
                      indexedCount |-> Len(st.items), complete |-> TRUE]]
          ELSE /\ pc' = [pc EXCEPT ![c] = "loop"]
               /\ response' = [response EXCEPT ![c] = NoResponse]
    /\ UNCHANGED <<source, fetchLog, processed, lastBatch, errors>>
    /\ UNCHANGED nonCrawlVars

(***************************************************************************)
(* The wall clock advances while a call is running.                        *)
(***************************************************************************)
Tick ==
    /\ \E c \in Calls : pc[c] # "idle" /\ elapsed[c] <= timeBudgetMs[c]
    /\ elapsed' = [c \in Calls |->
                     IF pc[c] # "idle" /\ elapsed[c] <= MaxBudget
                     THEN elapsed[c] + 1 ELSE elapsed[c]]
    /\ UNCHANGED <<source, recovered, complete, nextId, notFoundStreak, items,
                   pc, timeBudgetMs, startId, newlyIndexed, issued, response,
                   fetchLog, processed, lastBatch, errors>>
    /\ UNCHANGED nonCrawlVars

(***************************************************************************)
(* Top of the while loop with the state complete, or the budget used up:   *)
(* the loop ends and the call returns (lines 208-209, 243).                *)
(***************************************************************************)
LoopExit(c) ==
    /\ pc[c] = "loop"
    /\ complete \/ BudgetExceeded(elapsed[c], timeBudgetMs[c])
    /\ pc' = [pc EXCEPT ![c] = "idle"]
    /\ response' = [response EXCEPT ![c] = OkResponse(newlyIndexed[c])]
    /\ UNCHANGED <<source, recovered, complete, nextId, notFoundStreak, items,
                   timeBudgetMs, elapsed, startId, newlyIndexed, issued,
                   fetchLog, processed, lastBatch, errors>>
    /\ UNCHANGED nonCrawlVars

(***************************************************************************)
(* A batch is started (lines 208-215): the cursor is read and advanced     *)
(* and the 8 fetches are issued, all before the first suspension.          *)
(***************************************************************************)
StartBatch(c) ==
    /\ pc[c] = "loop"
    /\ ~complete
    /\ ~BudgetExceeded(elapsed[c], timeBudgetMs[c])
    /\ nextId + batchSize - 1 <= MaxId
    /\ startId' = [startId EXCEPT ![c] = nextId]
    /\ nextId' = AdvanceCursor(nextId)
    /\ fetchLog' = fetchLog \o BatchIds(nextId)
    /\ issued' = [issued EXCEPT ![c] = @ + 1]
    /\ pc' = [pc EXCEPT ![c] = "await"]
    /\ UNCHANGED <<source, recovered, complete, notFoundStreak, items,
                   timeBudgetMs, elapsed, newlyIndexed, response, processed,
                   lastBatch, errors>>
    /\ UNCHANGED nonCrawlVars

(***************************************************************************)
(* Promise.all resolves: the results are handled in order (lines 216-240); *)
(* the loop goes on, or the call returns when the state became complete.   *)
(***************************************************************************)
BatchResolve(c) ==
    /\ pc[c] = "await"
    /\ LET ids == BatchIds(startId[c])
           results == [i \in 1..batchSize |-> fetchQuestionById(ids[i])]
           st == ProcessResults(results, 1,
                    [complete |-> complete, notFoundStreak |-> notFoundStreak,
                     items |-> items, newlyIndexed |-> newlyIndexed[c],
                     processed |-> processed, stoppedAt |-> 0])
       IN /\ complete' = st.complete
          /\ notFoundStreak' = st.notFoundStreak
          /\ items' = st.items
          /\ newlyIndexed' = [newlyIndexed EXCEPT ![c] = st.newlyIndexed]
          /\ processed' = st.processed
          /\ lastBatch' = [startId |-> startId[c], outcome |-> "resolved",
                           stoppedAt |-> st.stoppedAt, itemsBefore |-> Len(items),
                           streakBefore |-> notFoundStreak,
                           late |-> BudgetExceeded(elapsed[c], timeBudgetMs[c])]
          /\ IF st.complete
             THEN /\ pc' = [pc EXCEPT ![c] = "idle"]
                  /\ response' = [response EXCEPT ![c] =
                        [status |-> 200, newlyIndexed |-> st.newlyIndexed,
                         indexedCount |-> Len(st.items), complete |-> TRUE]]
             ELSE /\ pc' = [pc EXCEPT ![c] = "loop"]
                  /\ response' = response
    /\ UNCHANGED <<source, recovered, nextId, timeBudgetMs, elapsed, startId,
                   issued, fetchLog, errors>>
    /\ UNCHANGED nonCrawlVars

\* faulty variant of BatchError: a failed fetch is taken for a 404, the batch for 8 of them
BatchErrorAsNotFound(c) ==
    /\ pc[c] = "await"
    /\ errors < MaxErrors
    /\ \E k \in 1..batchSize : BatchIds(startId[c])[k] \in FlakyIds
    /\ notFoundStreak' = notFoundStreak + batchSize
    /\ complete' = (notFoundStreak' >= maxConsecutiveNotFound
                       /\ Len(items) >= minIndexedBeforeStop)
    /\ pc' = [pc EXCEPT ![c] = "idle"]
    /\ response' = [response EXCEPT ![c] = ErrorResponse]
    /\ lastBatch' = [startId |-> startId[c], outcome |-> "rejected",
                     stoppedAt |-> 0, itemsBefore |-> Len(items),
                     streakBefore |-> notFoundStreak,
                     late |-> elapsed[c] > timeBudgetMs[c]]
    /\ errors' = errors + 1
    /\ UNCHANGED <<source, recovered, nextId, items, timeBudgetMs, elapsed,
                   startId, newlyIndexed, issued, fetchLog, processed>>
    /\ UNCHANGED nonCrawlVars

(***************************************************************************)
(* Promise.all rejects: one fetch of the batch threw (line 172, or the     *)
(* transport failed); the error leaves ensureIndexedUntilEnd and POST      *)
(* answers 502 (lines 347-350).  No result of the batch is handled.        *)
(***************************************************************************)
BatchError(c) ==
    /\ pc[c] = "await"
    /\ errors < MaxErrors
    /\ \E k \in 1..batchSize : BatchIds(startId[c])[k] \in FlakyIds
    /\ pc' = [pc EXCEPT ![c] = "idle"]
    /\ response' = [response EXCEPT ![c] = ErrorResponse]
    /\ lastBatch' = [startId |-> startId[c], outcome |-> "rejected",
                     stoppedAt |-> 0, itemsBefore |-> Len(items),
                     streakBefore |-> notFoundStreak,
                     late |-> BudgetExceeded(elapsed[c], timeBudgetMs[c])]
    /\ errors' = errors + 1
    /\ UNCHANGED <<source, recovered, complete, nextId, notFoundStreak, items,
                   timeBudgetMs, elapsed, startId, newlyIndexed, issued,
                   fetchLog, processed>>
    /\ UNCHANGED nonCrawlVars

NextCrawl ==
    \/ \E c \in Calls, b \in Budgets : CallStart(c, b)
    \/ Tick
    \/ \E c \in Calls : LoopExit(c)
    \/ \E c \in Calls : StartBatch(c)
    \/ \E c \in Calls : BatchResolve(c)
    \/ \E c \in Calls : BatchError(c)

(***************************************************************************)
(* searchDocs (lib/docs/index.ts, lines 292-396).                          *)
(*                                                                         *)
(* The corpus bundle: bundle.chunks.  Five chunks of one pdf and one chunk *)
(* of a text file, so that the per-file cap of 4 and the backfill pass     *)
(* both come into play.  year "" stands for a chunk without a year tag.    *)
(***************************************************************************)
Corpus ==
    << [chunkId |-> 1, fileName |-> "Rules.PDF", kind |-> "pdf", year |-> "2025"],
       [chunkId |-> 2, fileName |-> "Rules.PDF", kind |-> "pdf", year |-> "2025"],
       [chunkId |-> 3, fileName |-> "Rules.PDF", kind |-> "pdf", year |-> "2025"],
       [chunkId |-> 4, fileName |-> "Rules.PDF", kind |-> "pdf", year |-> "2025"],
       [chunkId |-> 5, fileName |-> "Rules.PDF", kind |-> "pdf", year |-> "2025"],
       [chunkId |-> 6, fileName |-> "notes.txt", kind |-> "text", year |-> ""] >>

ChunkIds == {Corpus[i].chunkId : i \in 1..Len(Corpus)}
FileNames == {Corpus[i].fileName : i \in 1..Len(Corpus)}

\* String.prototype.toLowerCase on the file names in use
toLowerCase(name) ==
    CASE name = "Rules.PDF" -> "rules.pdf"
      [] name = "RULES.pdf" -> "rules.pdf"
      [] name = "Other.PDF" -> "other.pdf"
      [] OTHER -> name

\* the filter parameters of a request: kinds is <<>> when params.kinds is
\* left out, else <<the set of kinds>>; year "" is a request without a year
FilterChoices ==
    { [kinds |-> <<>>, pdfFileNameAllow |-> {}, year |-> ""],
      [kinds |-> <<{"text"}>>, pdfFileNameAllow |-> {}, year |-> ""],
      [kinds |-> <<{"pdf", "text"}>>, pdfFileNameAllow |-> {"RULES.pdf"}, year |-> "2025"],
      [kinds |-> <<>>, pdfFileNameAllow |-> {"Other.PDF"}, year |-> ""],
      [kinds |-> <<>>, pdfFileNameAllow |-> {}, year |-> "2026"] }

\* params.limit: <<>> when left out, else <<limit>>
LimitChoices == {<<>>} \cup {<<n>> : n \in 0..MaxLimit}

\* the set built at lines 305-308
pdfFileNameAllowSet(p) ==
    {toLowerCase(v) : v \in p.pdfFileNameAllow}

\* the filters of lines 347-356: TRUE when the chunk is kept
PassesFilters(chunk, p) ==
    /\ ~(Len(p.kinds) > 0 /\ chunk.kind \notin p.kinds[1])
    /\ ~( /\ chunk.kind = "pdf"
          /\ p.pdfFileNameAllow # {}
          /\ toLowerCase(chunk.fileName) \notin pdfFileNameAllowSet(p) )
    /\ ~(chunk.kind = "pdf" /\ p.year # "" /\ chunk.year # "" /\ chunk.year # p.year)
    /\ ~(chunk.kind = "pdf" /\ p.year # "" /\ chunk.year = "")

\* Array.prototype.sort((a, b) => b.score - a.score): a stable sort
InsertDesc(sorted, x) ==
    LET k == Cardinality({i \in 1..Len(sorted) : sorted[i].score >= x.score})
    IN SubSeq(sorted, 1, k) \o <<x>> \o SubSeq(sorted, k + 1, Len(sorted))

RECURSIVE SortDesc(_)
SortDesc(s) ==
    IF Len(s) = 0 THEN <<>>
    ELSE InsertDesc(SortDesc(SubSeq(s, 1, Len(s) - 1)), s[Len(s)])

\* Array.prototype.slice(0, n)
Take(s, n) == SubSeq(s, 1, IF Len(s) < n THEN Len(s) ELSE n)

\* lines 337-340: the entries of scoreByChunkId, sorted, the first 250
Results(p) ==
    Take(SortDesc([i \in 1..Len(Corpus) |->
                     [chunkId |-> Corpus[i].chunkId, score |-> p.scores[Corpus[i].chunkId]]]),
         maxCandidates)

\* chunksById.get
ChunkById(id) == Corpus[CHOOSE i \in 1..Len(Corpus) : Corpus[i].chunkId = id]

\* lines 341-369: the candidates that pass the filters, with their score, sorted
RECURSIVE Filtered(_, _, _)
Filtered(results, i, p) ==
    IF i > Len(results) THEN <<>>
    ELSE LET chunk == ChunkById(results[i].chunkId)
             rest == Filtered(results, i + 1, p)
         IN IF PassesFilters(chunk, p)
            THEN <<[chunkId |-> chunk.chunkId, fileName |-> chunk.fileName,
                    score |-> results[i].score]>> \o rest
            ELSE rest

Out(p) == SortDesc(Filtered(Results(p), 1, p))

\* const limit = params.limit ?? 12
Limit(p) == IF Len(p.limit) = 0 THEN defaultLimit ELSE p.limit[1]

\* faulty variant of FirstPass: a file is skipped only above the cap
RECURSIVE FirstPassCapLate(_, _, _, _)
FirstPassCapLate(out, i, st, limit) ==
    IF i > Len(out) THEN st
    ELSE LET item == out[i]
             count == st.perFile[item.fileName]
         IN IF count > perFileCap
            THEN FirstPassCapLate(out, i + 1, st, limit)
            ELSE LET s1 == [picked |-> Append(st.picked, item),
                            pickedIds |-> st.pickedIds \cup {item.chunkId},
                            perFile |-> [st.perFile EXCEPT ![item.fileName] = count + 1]]
                 IN IF Len(s1.picked) >= limit THEN s1
                    ELSE FirstPassCapLate(out, i + 1, s1, limit)

(***************************************************************************)
(* The capped pass, lines 377-384, from position i of out on.              *)
(***************************************************************************)
RECURSIVE FirstPass(_, _, _, _)
FirstPass(out, i, st, limit) ==
    IF i > Len(out) THEN st
    ELSE LET item == out[i]
             count == st.perFile[item.fileName]
         IN IF count >= perFileCap
            THEN FirstPass(out, i + 1, st, limit)
            ELSE LET s1 == [picked |-> Append(st.picked, item),
                            pickedIds |-> st.pickedIds \cup {item.chunkId},
                            perFile |-> [st.perFile EXCEPT ![item.fileName] = count + 1]]
                 IN IF Len(s1.picked) >= limit THEN s1
                    ELSE FirstPass(out, i + 1, s1, limit)

(***************************************************************************)
(* The backfill pass, lines 387-392, from position i of out on.            *)
(***************************************************************************)
RECURSIVE Backfill(_, _, _, _)
Backfill(out, i, st, limit) ==
    IF i > Len(out) THEN st
    ELSE LET item == out[i] IN
         IF item.chunkId \in st.pickedIds
         THEN Backfill(out, i + 1, st, limit)
         ELSE LET s1 == [st EXCEPT !.picked = Append(@, item),
                                   !.pickedIds = @ \cup {item.chunkId}]
              IN IF Len(s1.picked) >= limit THEN s1
                 ELSE Backfill(out, i + 1, s1, limit)

\* searchDocs, lines 369-395, with the length of the capped pass as a trace
searchDocs(p) ==
    LET out == Out(p)
        limit == Limit(p)
        first == FirstPass(out, 1,
                    [picked |-> <<>>, pickedIds |-> {},
                     perFile |-> [f \in FileNames |-> 0]], limit)
        final == IF Len(first.picked) < limit THEN Backfill(out, 1, first, limit)
                 ELSE first
    IN [picked |-> final.picked, firstPass |-> Len(first.picked),
        candidates |-> Len(out), limit |-> limit]

NoParams == [scores |-> [c \in ChunkIds |-> 1], limit |-> <<>>, kinds |-> <<>>,
             pdfFileNameAllow |-> {}, year |-> ""]
NoResult == [picked |-> <<>>, firstPass |-> 0, candidates |-> 0, limit |-> 0]

\* no search request: the state of the search variables under Spec
SearchOff ==
    /\ searchPc = "off"
    /\ searchParams = NoParams
    /\ searchResult = NoResult

\* a search request with bounded parameters and merged scores
InitSearch ==
    /\ searchPc = "ready"
    /\ \E sc \in [ChunkIds -> 1..MaxScore], l \in LimitChoices, f \in FilterChoices :
          searchParams = [scores |-> sc, limit |-> l, kinds |-> f.kinds,
                          pdfFileNameAllow |-> f.pdfFileNameAllow, year |-> f.year]
    /\ searchResult = NoResult

SearchDocs ==
    /\ searchPc = "ready"
    /\ searchResult' = searchDocs(searchParams)
    /\ searchPc' = "done"
    /\ UNCHANGED <<searchParams, nonSearchVars>>

(***************************************************************************)
(* expandHeaderContext (lib/docs/index.ts, lines 398-495).                 *)
(*                                                                         *)
(* bundle.chunks, in the bundle's order.  header is isLikelyHeader(text),  *)
(* len is text.trim().length; page and seg (the :sN part of the chunk id)  *)
(* or startLine give the ordering key.  File f1: header 1, an empty chunk  *)
(* 6, bodies 2 and 3, header 4, body 5.  File f2: header 7, body 8.        *)
(***************************************************************************)
ExpandCorpus ==
    << [chunkId |-> 5, fileId |-> "f1", kind |-> "pdf", page |-> 2, seg |-> 1,
        startLine |-> 0, header |-> FALSE, len |-> 4],
       [chunkId |-> 1, fileId |-> "f1", kind |-> "pdf", page |-> 1, seg |-> 0,
        startLine |-> 0, header |-> TRUE, len |-> 2],
       [chunkId |-> 2, fileId |-> "f1", kind |-> "pdf", page |-> 1, seg |-> 2,
        startLine |-> 0, header |-> FALSE, len |-> 3],
       [chunkId |-> 6, fileId |-> "f1", kind |-> "pdf", page |-> 1, seg |-> 1,
        startLine |-> 0, header |-> FALSE, len |-> 0],
       [chunkId |-> 3, fileId |-> "f1", kind |-> "pdf", page |-> 1, seg |-> 3,
        startLine |-> 0, header |-> FALSE, len |-> 2],
       [chunkId |-> 4, fileId |-> "f1", kind |-> "pdf", page |-> 2, seg |-> 0,
        startLine |-> 0, header |-> TRUE, len |-> 2],
       [chunkId |-> 8, fileId |-> "f2", kind |-> "text", page |-> 0, seg |-> 0,
        startLine |-> 5, header |-> FALSE, len |-> 3],
       [chunkId |-> 7, fileId |-> "f2", kind |-> "text", page |-> 0, seg |-> 0,
        startLine |-> 1, header |-> TRUE, len |-> 2] >>

ExpandChunkIds == {ExpandCorpus[i].chunkId : i \in 1..Len(ExpandCorpus)}

ExpandChunk(id) ==
    ExpandCorpus[CHOOSE i \in 1..Len(ExpandCorpus) : ExpandCorpus[i].chunkId = id]

\* chunkOrderKey, lines 220-226
chunkOrderKey(chunk) ==
    IF chunk.kind = "pdf" THEN chunk.page * 1000 + chunk.seg ELSE chunk.startLine

\* list.sort((a, b) => chunkOrderKey(a) - chunkOrderKey(b)): a stable sort
InsertByOrder(sorted, x) ==
    LET k == Cardinality({i \in 1..Len(sorted) :
                            chunkOrderKey(sorted[i]) <= chunkOrderKey(x)})
    IN SubSeq(sorted, 1, k) \o <<x>> \o SubSeq(sorted, k + 1, Len(sorted))

RECURSIVE SortByOrder(_)
SortByOrder(s) ==
    IF Len(s) = 0 THEN <<>>
    ELSE InsertByOrder(SortByOrder(SubSeq(s, 1, Len(s) - 1)), s[Len(s)])

\* byFileId.get(fileId), lines 416-424: the file's chunks in key order
byFileId(fileId) ==
    SortByOrder(SelectSeq(ExpandCorpus, LAMBDA c : c.fileId = fileId))

\* list.findIndex((c) => c.chunkId === base.chunkId); 0 stands for -1
findIndex(list, id) ==
    IF \E i \in 1..Len(list) : list[i].chunkId = id
    THEN CHOOSE i \in 1..Len(list) :
            /\ list[i].chunkId = id
            /\ \A j \in 1..(i - 1) : list[j].chunkId # id
    ELSE 0

\* Math.max(0.1, base.score * 0.7), scores counted in hundredths
ExtraScore(baseScore) ==
    IF (7 * baseScore) \div 10 > 10 THEN (7 * baseScore) \div 10 ELSE 10

\* faulty variant of CharBudgetReached: the budget has to be exceeded
CharBudgetExceeded(extraChars, maxExtraChars) == extraChars > maxExtraChars

\* if (extraChars >= maxExtraChars) break, line 472
CharBudgetReached(extraChars, maxExtraChars) == extraChars >= maxExtraChars

\* faulty variant of Walk: a chunk without text is attached like any other
RECURSIVE WalkKeepEmpty(_, _, _, _, _)
WalkKeepEmpty(list, i, base, st, opts) ==
    IF i > Len(list) THEN st
    ELSE LET c == list[i] IN
         IF c.chunkId \in st.existingIds THEN WalkKeepEmpty(list, i + 1, base, st, opts)
         ELSE IF st.added >= opts.maxPerHeader \/ st.extraCount >= opts.maxExtraTotal
              THEN st
         ELSE LET s1 == [st EXCEPT
                           !.extraChars = @ + c.len,
                           !.extras = Append(@,
                               [chunkId |-> c.chunkId, fileId |-> c.fileId,
                                header |-> c.header, len |-> c.len,
                                score |-> ExtraScore(base.score),
                                forHeader |-> base.chunkId]),
                           !.existingIds = @ \cup {c.chunkId},
                           !.pinnedIds = @ \cup {c.chunkId},
                           !.added = @ + 1,
                           !.extraCount = @ + 1]
              IN IF CharBudgetReached(s1.extraChars, opts.maxExtraChars) THEN s1
                 ELSE IF c.header /\ s1.added > 0 THEN s1
                 ELSE WalkKeepEmpty(list, i + 1, base, s1, opts)

(***************************************************************************)
(* The walk behind one header, lines 449-474, from position i of the       *)
(* file's list on.  st carries extras, existingIds, pinnedIds, extraCount  *)
(* and the walk's own added and extraChars.                                *)
(***************************************************************************)
RECURSIVE Walk(_, _, _, _, _)
Walk(list, i, base, st, opts) ==
    IF i > Len(list) THEN st
    ELSE LET c == list[i] IN
         IF c.chunkId \in st.existingIds THEN Walk(list, i + 1, base, st, opts)
         ELSE IF c.len = 0 THEN Walk(list, i + 1, base, st, opts)
         ELSE IF st.added >= opts.maxPerHeader \/ st.extraCount >= opts.maxExtraTotal
              THEN st
         ELSE LET s1 == [st EXCEPT
                           !.extraChars = @ + c.len,
                           !.extras = Append(@,
                               [chunkId |-> c.chunkId, fileId |-> c.fileId,
                                header |-> c.header, len |-> c.len,
                                score |-> ExtraScore(base.score),
                                forHeader |-> base.chunkId]),
                           !.existingIds = @ \cup {c.chunkId},
                           !.pinnedIds = @ \cup {c.chunkId},
                           !.added = @ + 1,
                           !.extraCount = @ + 1]
              IN IF CharBudgetReached(s1.extraChars, opts.maxExtraChars) THEN s1
                 ELSE IF c.header /\ s1.added > 0 THEN s1
                 ELSE Walk(list, i + 1, base, s1, opts)

(***************************************************************************)
(* The loop over the ranked input, lines 434-475, from position k on.      *)
(***************************************************************************)
RECURSIVE HeaderLoop(_, _, _, _)
HeaderLoop(retrieved, k, st, opts) ==
    IF k > Len(retrieved) THEN st
    ELSE LET base == retrieved[k] IN
         IF ~base.header THEN HeaderLoop(retrieved, k + 1, st, opts)
         ELSE IF base.len > maxHeaderChars THEN HeaderLoop(retrieved, k + 1, st, opts)
         ELSE IF st.extraCount >= opts.maxExtraTotal THEN st
         ELSE LET s0 == [st EXCEPT !.pinnedIds = @ \cup {base.chunkId}]
                  list == byFileId(base.fileId)
                  idx == findIndex(list, base.chunkId)
              IN IF Len(list) = 0 \/ idx = 0
                 THEN HeaderLoop(retrieved, k + 1, s0, opts)
                 ELSE HeaderLoop(retrieved, k + 1,
                         Walk(list, idx + 1, base,
                              [s0 EXCEPT !.added = 0, !.extraChars = 0], opts),
                         opts)

\* faulty variant of InsertAsc: descending, the highest score comes first
InsertAscDescending(sorted, x) ==
    LET k == Cardinality({i \in 1..Len(sorted) : sorted[i].score >= x.score})
    IN SubSeq(sorted, 1, k) \o <<x>> \o SubSeq(sorted, k + 1, Len(sorted))

\* a.score - b.score ascending, stable: the order of dropCandidates (line 485)
InsertAsc(sorted, x) ==
    LET k == Cardinality({i \in 1..Len(sorted) : sorted[i].score <= x.score})
    IN SubSeq(sorted, 1, k) \o <<x>> \o SubSeq(sorted, k + 1, Len(sorted))

RECURSIVE SortAsc(_)
SortAsc(s) ==
    IF Len(s) = 0 THEN <<>>
    ELSE InsertAsc(SortAsc(SubSeq(s, 1, Len(s) - 1)), s[Len(s)])

\* faulty variant of Dropped: stops one chunk short of the overflow
DroppedOneShort(merged, pinnedIds, maxTotal) ==
    LET dropCandidates == SortAsc(SelectSeq(merged, LAMBDA m : m.chunkId \notin pinnedIds))
        toDrop == Len(merged) - maxTotal - 1
        n == IF toDrop < Len(dropCandidates) THEN toDrop ELSE Len(dropCandidates)
    IN {dropCandidates[j].chunkId : j \in 1..n}

\* lines 482-492: the chunk ids deleted from byId
Dropped(merged, pinnedIds, maxTotal) ==
    LET dropCandidates == SortAsc(SelectSeq(merged, LAMBDA m : m.chunkId \notin pinnedIds))
        toDrop == Len(merged) - maxTotal
        n == IF toDrop < Len(dropCandidates) THEN toDrop ELSE Len(dropCandidates)
    IN {dropCandidates[j].chunkId : j \in 1..n}

\* lines 477-494: what is returned once the extras are known
Evict(retrieved, extras, pinnedIds, maxTotal) ==
    IF Len(extras) = 0 THEN retrieved
    ELSE LET merged == retrieved \o extras IN
         IF Len(merged) <= maxTotal THEN merged
         ELSE LET gone == Dropped(merged, pinnedIds, maxTotal)
              IN SelectSeq(merged, LAMBDA m : m.chunkId \notin gone)

\* expandHeaderContext, with the extras and the pinned ids as a trace
expandHeaderContext(retrieved, opts) ==
    IF Len(retrieved) = 0
    THEN [out |-> retrieved, extras |-> <<>>, pinnedIds |-> {}]
    ELSE LET st == HeaderLoop(retrieved, 1,
                      [extras |-> <<>>,
                       existingIds |-> {retrieved[k].chunkId : k \in 1..Len(retrieved)},
                       pinnedIds |-> {}, extraCount |-> 0, added |-> 0,
                       extraChars |-> 0], opts)
         IN [out |-> Evict(retrieved, st.extras, st.pinnedIds, opts.maxTotal),
             extras |-> st.extras, pinnedIds |-> st.pinnedIds]

\* the options of a call; the first is what the defaults of lines 409-412 give
OptionChoices ==
    { [maxTotal |-> defaultMaxTotal, maxPerHeader |-> defaultMaxPerHeader,
       maxExtraTotal |-> defaultMaxExtraTotal, maxExtraChars |-> defaultMaxExtraChars],
      [maxTotal |-> 0, maxPerHeader |-> 3, maxExtraTotal |-> 8, maxExtraChars |-> 5000],
      [maxTotal |-> 1, maxPerHeader |-> 3, maxExtraTotal |-> 8, maxExtraChars |-> 5000],
      [maxTotal |-> 2, maxPerHeader |-> 1, maxExtraTotal |-> 8, maxExtraChars |-> 5000],
      [maxTotal |-> 2, maxPerHeader |-> 3, maxExtraTotal |-> 0, maxExtraChars |-> 5000],
      [maxTotal |-> 3, maxPerHeader |-> 2, maxExtraTotal |-> 3, maxExtraChars |-> 5000],
      [maxTotal |-> 3, maxPerHeader |-> 3, maxExtraTotal |-> 8, maxExtraChars |-> 4],
      [maxTotal |-> 4, maxPerHeader |-> 3, maxExtraTotal |-> 1, maxExtraChars |-> 5000],
      [maxTotal |-> 4, maxPerHeader |-> 3, maxExtraTotal |-> 8, maxExtraChars |-> 0],
      [maxTotal |-> 4, maxPerHeader |-> 3, maxExtraTotal |-> 8, maxExtraChars |-> 3],
      [maxTotal |-> 5, maxPerHeader |-> 0, maxExtraTotal |-> 8, maxExtraChars |-> 5000],
      [maxTotal |-> 5, maxPerHeader |-> 3, maxExtraTotal |-> 2, maxExtraChars |-> 5] }

\* the score of the chunk at position k of a ranked input, in hundredths
ScoreProfiles ==
    { [k \in 1..10 |-> 100],
      [k \in 1..10 |-> 100 * (11 - k)],
      [k \in 1..10 |-> 10 * k] }

\* ranked inputs: 1..MaxRetrieved distinct chunks of the corpus
RankedInputs ==
    UNION { {q \in [1..n -> ExpandChunkIds] : \A i, j \in 1..n : i # j => q[i] # q[j]}
            : n \in 1..MaxRetrieved }

Retrieved(ids, profile) ==
    [k \in 1..Len(ids) |->
        LET c == ExpandChunk(ids[k])
        IN [chunkId |-> c.chunkId, fileId |-> c.fileId, header |-> c.header,
            len |-> c.len, score |-> profile[k], forHeader |-> 0]]

NoExpandArgs == [retrieved |-> <<>>, opts |-> [maxTotal |-> 0, maxPerHeader |-> 0,
                                               maxExtraTotal |-> 0, maxExtraChars |-> 0]]
NoExpandResult == [out |-> <<>>, extras |-> <<>>, pinnedIds |-> {}]

\* no expansion request: the state of its variables under the other specifications
ExpandOff ==
    /\ expandPc = "off"
    /\ expandArgs = NoExpandArgs
    /\ expandResult = NoExpandResult

InitExpand ==
    /\ expandPc = "ready"
    /\ \E ids \in RankedInputs, pr \in ScoreProfiles, o \in OptionChoices :
          expandArgs = [retrieved |-> Retrieved(ids, pr), opts |-> o]
    /\ expandResult = NoExpandResult

ExpandHeaderContext ==
    /\ expandPc = "ready"
    /\ expandResult' = expandHeaderContext(expandArgs.retrieved, expandArgs.opts)
    /\ expandPc' = "done"
    /\ UNCHANGED <<expandArgs, nonExpandVars>>

(***************************************************************************)
(* The fuzzy matcher of the lookup route (part_004): normalizeText,        *)
(* toTokens, jaccard, substringScore, scoreMatch and the ranking of POST   *)
(* (lines 316-346).  Texts are strings of ASCII characters.  A score is a  *)
(* fraction [n, d] standing for the double the code computes; fractions    *)
(* are compared by cross-multiplication.                                   *)
(***************************************************************************)
Char(s, i) == SubSeq(s, i, i)

UpperCase == "ABCDEFGHIJKLMNOPQRSTUVWXYZ"
LowerCase == "abcdefghijklmnopqrstuvwxyz"
Digits == "0123456789"

\* String.prototype.toLowerCase on one character
LowerChar(c) ==
    IF \E k \in 1..Len(UpperCase) : Char(UpperCase, k) = c
    THEN Char(LowerCase, CHOOSE k \in 1..Len(UpperCase) : Char(UpperCase, k) = c)
    ELSE c

\* \p{L} or \p{N}, for a character already in lower case
IsLetterOrDigit(c) ==
    \/ \E k \in 1..Len(LowerCase) : Char(LowerCase, k) = c
    \/ \E k \in 1..Len(Digits) : Char(Digits, k) = c

\* lines 82-84: a backslash followed by n, r or t becomes a space
RECURSIVE Unescape(_)
Unescape(s) ==
    IF Len(s) = 0 THEN ""
    ELSE IF Len(s) >= 2 /\ Char(s, 1) = "\\" /\ Char(s, 2) \in {"n", "r", "t"}
         THEN " " \o Unescape(SubSeq(s, 3, Len(s)))
         ELSE Char(s, 1) \o Unescape(SubSeq(s, 2, Len(s)))

\* lines 85-87: lower case, then every character that is no letter and no
\* digit (the apostrophes of line 86 among them) becomes a space
RECURSIVE StripToSpaces(_)
StripToSpaces(s) ==
    IF Len(s) = 0 THEN ""
    ELSE (LET c == LowerChar(Char(s, 1))
          IN IF IsLetterOrDigit(c) THEN c ELSE " ")
         \o StripToSpaces(SubSeq(s, 2, Len(s)))

\* lines 87-89: runs of spaces become one space, none at either end
RECURSIVE CollapseAndTrim(_, _)
CollapseAndTrim(s, acc) ==
    IF Len(s) = 0
    THEN IF Len(acc) > 0 /\ Char(acc, Len(acc)) = " "
         THEN SubSeq(acc, 1, Len(acc) - 1) ELSE acc
    ELSE LET c == Char(s, 1)
             rest == SubSeq(s, 2, Len(s))
         IN IF c = " " /\ (Len(acc) = 0 \/ Char(acc, Len(acc)) = " ")
            THEN CollapseAndTrim(rest, acc)
            ELSE CollapseAndTrim(rest, acc \o c)

normalizeText(input) == CollapseAndTrim(StripToSpaces(Unescape(input)), "")

\* normalized.split(" "), as the set of the pieces
RECURSIVE SplitOnSpace(_, _)
SplitOnSpace(s, word) ==
    IF Len(s) = 0 THEN {word}
    ELSE IF Char(s, 1) = " "
         THEN {word} \cup SplitOnSpace(SubSeq(s, 2, Len(s)), "")
         ELSE SplitOnSpace(SubSeq(s, 2, Len(s)), word \o Char(s, 1))

\* faulty variant of toTokens: pieces of one character are kept
toTokensKeepShort(normalized) == {t \in SplitOnSpace(normalized, "") : Len(t) > 0}

\* toTokens, lines 92-100: the pieces of more than one character
toTokens(normalized) == {t \in SplitOnSpace(normalized, "") : Len(t) > 1}

\* String.prototype.includes
includes(a, b) ==
    \/ Len(b) = 0
    \/ \E i \in 1..(Len(a) - Len(b) + 1) : SubSeq(a, i, i + Len(b) - 1) = b

Frac(n, d) == [n |-> n, d |-> d]
FracGeq(a, b) == a.n * b.d >= b.n * a.d
FracEq(a, b) == a.n * b.d = b.n * a.d
FracMax(a, b) == IF FracGeq(a, b) THEN a ELSE b

\* jaccard, lines 102-108
jaccard(a, b) ==
    IF Cardinality(a) = 0 \/ Cardinality(b) = 0 THEN Frac(0, 1)
    ELSE LET inter == Cardinality(a \cap b)
             union == Cardinality(a) + Cardinality(b) - inter
         IN IF union > 0 THEN Frac(inter, union) ELSE Frac(0, 1)

\* faulty variant of substringScore: no minimum length
substringScoreAnyLength(a, b) ==
    IF Len(a) = 0 \/ Len(b) = 0 THEN Frac(0, 1)
    ELSE IF a = b THEN Frac(1, 1)
    ELSE IF includes(a, b) \/ includes(b, a) THEN Frac(17, 20)
    ELSE Frac(0, 1)

\* substringScore, lines 110-116
substringScore(a, b) ==
    IF Len(a) = 0 \/ Len(b) = 0 THEN Frac(0, 1)
    ELSE IF a = b THEN Frac(1, 1)
    ELSE IF Len(a) < 4 \/ Len(b) < 4 THEN Frac(0, 1)
    ELSE IF includes(a, b) \/ includes(b, a) THEN Frac(17, 20)
    ELSE Frac(0, 1)

\* jac * 0.3 + overlap * 0.7 of line 135
Blend(jac, overlap) ==
    Frac(3 * jac.n * overlap.d + 7 * overlap.n * jac.d, 10 * jac.d * overlap.d)

\* scoreMatch, lines 118-136
scoreMatch(query, candidate) ==
    IF Len(query.normalized) = 0 \/ Len(candidate.normalized) = 0 THEN Frac(0, 1)
    ELSE IF query.normalized = candidate.normalized THEN Frac(1, 1)
    ELSE LET longer == IF Len(query.normalized) >= Len(candidate.normalized)
                       THEN query.normalized ELSE candidate.normalized
             shorter == IF longer = query.normalized
                        THEN candidate.normalized ELSE query.normalized
         IN IF Len(shorter) >= 20 /\ includes(longer, shorter) THEN Frac(19, 20)
            ELSE LET jac == jaccard(query.tokens, candidate.tokens)
                     minSize == Min(Cardinality(query.tokens),
                                    Cardinality(candidate.tokens))
                     overlap == IF minSize > 0
                                THEN Frac(Cardinality(query.tokens \cap candidate.tokens),
                                          minSize)
                                ELSE Frac(0, 1)
                     sub == substringScore(query.normalized, candidate.normalized)
                 IN FracMax(Blend(jac, overlap), sub)

\* an entry of state.items as fetchQuestionById builds it (lines 177-195),
\* and the query of POST (lines 306-314)
IndexedQuestion(id, text) ==
    [id |-> id, text |-> text, normalized |-> normalizeText(text),
     tokens |-> toTokens(normalizeText(text))]

\* x.score >= 0.4, line 318
threshold == Frac(2, 5)

\* faulty variant of InsertByScore: an equal score goes in front
InsertByScoreTiesFirst(sorted, x) ==
    LET k == Cardinality({i \in 1..Len(sorted) : ~FracGeq(x.score, sorted[i].score)})
    IN SubSeq(sorted, 1, k) \o <<x>> \o SubSeq(sorted, k + 1, Len(sorted))

\* sort((a, b) => b.score - a.score), line 319: descending and stable
InsertByScore(sorted, x) ==
    LET k == Cardinality({i \in 1..Len(sorted) : FracGeq(sorted[i].score, x.score)})
    IN SubSeq(sorted, 1, k) \o <<x>> \o SubSeq(sorted, k + 1, Len(sorted))

RECURSIVE SortByScore(_)
SortByScore(s) ==
    IF Len(s) = 0 THEN <<>>
    ELSE InsertByScore(SortByScore(SubSeq(s, 1, Len(s) - 1)), s[Len(s)])

\* lines 316-321: every entry scored, the confident ones ranked, the first kept
ScoreAll(queryText, texts) ==
    [k \in 1..Len(texts) |->
        [questionId |-> k,
         score |-> scoreMatch(IndexedQuestion(0, queryText),
                              IndexedQuestion(k, texts[k]))]]

Scored(queryText, texts) ==
    Take(SortByScore(SelectSeq(ScoreAll(queryText, texts),
                               LAMBDA x : FracGeq(x.score, threshold))),
         lookupLimit)

\* the texts a question of the upstream source may have
CandidateTexts ==
    { "Total current limit",
      "TOTAL current\\nlimit?",
      "what is the penalty for a spin during dynamic events",
      "cost report submission deadline",
      "the penalty",
      "spin a",
      "" }

\* the texts a request may ask for
QueryTexts ==
    { "Total current limit",
      "describe the penalty for a spin",
      "the penalty for a spin",
      "for a spin",
      "is",
      "a",
      "brake pedal travel sensor",
      "?!" }

\* state.items of at most MaxItems entries with different texts
ItemLists ==
    UNION { {q \in [1..n -> CandidateTexts] : \A i, j \in 1..n : i # j => q[i] # q[j]}
            : n \in 0..MaxItems }

NoMatchArgs == [query |-> "", items |-> <<>>]
NoMatchResult == [status |-> 0, ok |-> FALSE, matches |-> <<>>, scores |-> <<>>]

\* no lookup: the state of its variables under the other specifications
MatchOff ==
    /\ matchPc = "off"
    /\ matchArgs = NoMatchArgs
    /\ matchResult = NoMatchResult

InitMatch ==
    /\ matchPc = "ready"
    /\ \E q \in QueryTexts, l \in ItemLists : matchArgs = [query |-> q, items |-> l]
    /\ matchResult = NoMatchResult

\* POST from line 306 on, the index given: the 200 response of lines 327-346
Lookup ==
    /\ matchPc = "ready"
    /\ matchResult' = [status |-> 200, ok |-> TRUE,
                       matches |-> Scored(matchArgs.query, matchArgs.items),
                       scores |-> ScoreAll(matchArgs.query, matchArgs.items)]
    /\ matchPc' = "done"
    /\ UNCHANGED <<matchArgs, nonMatchVars>>

\* POST when ensureIndexedUntilEnd throws: the 502 of the catch block (347-350)
LookupFails ==
    /\ matchPc = "ready"
    /\ matchResult' = [status |-> 502, ok |-> FALSE, matches |-> <<>>, scores |-> <<>>]
    /\ matchPc' = "done"
    /\ UNCHANGED <<matchArgs, nonMatchVars>>

(***************************************************************************)
(* makeExcerpt (lib/docs/index.ts, lines 169-192).  The text is taken      *)
(* after line 170 (white space collapsed, trimmed) and is given by its     *)
(* length n = hay.length; a term is given by its length and by idx, what   *)
(* lower.indexOf(term.toLowerCase()) returns for it (-1 when the term does *)
(* not occur).  The excerpt is prefix + hay.slice(start, end) + suffix.    *)
(***************************************************************************)
Max(a, b) == IF a > b THEN a ELSE b

\* lines 174-182: the first term of the list among those that occur earliest;
\* 0 when no term occurs (bestIdx = -1)
BestTerm(terms) ==
    LET occurring == {k \in 1..Len(terms) : terms[k].idx # -1}
    IN IF occurring = {} THEN 0
       ELSE CHOOSE k \in occurring :
               /\ \A j \in occurring : terms[k].idx <= terms[j].idx
               /\ \A j \in occurring : j < k => terms[j].idx > terms[k].idx

\* faulty variant of Pad: the whole of what the term leaves, not half of it
PadWhole(termLen) == maxLen - termLen

\* Math.floor((maxLen - bestTerm.length) / 2), line 186
Pad(termLen) == (maxLen - termLen) \div 2

Excerpt(prefix, start, end, suffix) ==
    [prefix |-> prefix, start |-> start, end |-> end, suffix |-> suffix]

makeExcerpt(n, terms) ==
    IF n = 0 THEN Excerpt(FALSE, 0, 0, FALSE)
    ELSE LET best == BestTerm(terms) IN
         IF best = 0
         THEN IF n <= maxLen THEN Excerpt(FALSE, 0, n, FALSE)
              ELSE Excerpt(FALSE, 0, maxLen, TRUE)
         ELSE LET bestIdx == terms[best].idx
                  pad == Pad(terms[best].len)
                  start == Max(0, bestIdx - pad)
                  end == Min(n, bestIdx + terms[best].len + pad)
              IN Excerpt(start > 0, start, end, end < n)

\* the lengths of the texts and of the terms, and the offsets, of the model
HayLengths == {0, 4, 900, 901, 2000}
TermLengths == {2, 7, 901}
Offsets == {-1, 0, 2, 449, 1500, 1993}

\* a term that does not occur, or one that lies within the text
TermsOf(n) ==
    {t \in [len : TermLengths, idx : Offsets] : t.idx = -1 \/ t.idx + t.len <= n}

TermLists(n) == UNION {[1..k -> TermsOf(n)] : k \in 0..MaxTerms}

NoExcerptArgs == [n |-> 0, terms |-> <<>>]
NoExcerptResult == Excerpt(FALSE, 0, 0, FALSE)

\* no excerpt asked for: the state of its variables under the other specifications
ExcerptOff ==
    /\ excerptPc = "off"
    /\ excerptArgs = NoExcerptArgs
    /\ excerptResult = NoExcerptResult

InitExcerpt ==
    /\ excerptPc = "ready"
    /\ \E n \in HayLengths : \E ts \in TermLists(n) : excerptArgs = [n |-> n, terms |-> ts]
    /\ excerptResult = NoExcerptResult

MakeExcerpt ==
    /\ excerptPc = "ready"
    /\ excerptResult' = makeExcerpt(excerptArgs.n, excerptArgs.terms)
    /\ excerptPc' = "done"
    /\ UNCHANGED <<excerptArgs, nonExcerptVars>>

(***************************************************************************)
(* loadIndex (lib/docs/index.ts, lines 43-95) and its cache                *)
(* globalThis.__fredquiz_index.  A bundle file has an mtime, a content     *)
(* (numbered by the write that produced it) and is valid when JSON.parse   *)
(* and MiniSearch.loadJS accept it.  A LoadedIndex carries the path and    *)
(* the mtime it was loaded under, the content it was parsed from and, as   *)
(* its identity, the number of the load that built it.  One load runs at a *)
(* time; the files may change while it awaits fs.readFile.                 *)
(***************************************************************************)
Paths == {"bundle.json", "other.json"}
Mtimes == 1..MaxMtime

NoFile == [exists |-> FALSE, mtimeMs |-> 0, content |-> 0, valid |-> FALSE]
NoIndex == [loaded |-> FALSE, indexPath |-> "", mtimeMs |-> 0, content |-> 0, instance |-> 0]
NoLocal == [indexPath |-> "", mtimeMs |-> 0]
NoReturn == [kind |-> "none", instance |-> 0]

\* faulty variant of CacheHit: the path is not compared
CacheHitOnMtimeOnly(cached, indexPath, mtimeMs) ==
    /\ cached.loaded
    /\ cached.mtimeMs = mtimeMs

\* the condition of lines 55-59
CacheHit(cached, indexPath, mtimeMs) ==
    /\ cached.loaded
    /\ cached.indexPath = indexPath
    /\ cached.mtimeMs = mtimeMs

\* no load and no file: the state of the variables under the other specifications
CacheOff ==
    /\ dataPath = ""
    /\ disk = [p \in Paths |-> NoFile]
    /\ fredquizIndex = NoIndex
    /\ loadPc = "off"
    /\ loadLocal = NoLocal
    /\ loadReturn = NoReturn
    /\ loads = 0
    /\ reads = 0
    /\ modifications = 0

\* a fresh process: nothing cached, the path set, no bundle written yet
InitCache ==
    /\ dataPath = "bundle.json"
    /\ disk = [p \in Paths |-> NoFile]
    /\ fredquizIndex = NoIndex
    /\ loadPc = "idle"
    /\ loadLocal = NoLocal
    /\ loadReturn = NoReturn
    /\ loads = 0
    /\ reads = 0
    /\ modifications = 0

\* the indexer (or anyone) writes a bundle file
WriteBundle(p, m, valid) ==
    /\ loadPc \in {"idle", "read"}
    /\ modifications < MaxModifications
    /\ disk' = [disk EXCEPT ![p] = [exists |-> TRUE, mtimeMs |-> m,
                                    content |-> modifications + 1, valid |-> valid]]
    /\ modifications' = modifications + 1
    /\ UNCHANGED <<dataPath, fredquizIndex, loadPc, loadLocal, loadReturn, loads, reads,
                   nonCacheVars>>

\* a bundle file is removed
DeleteBundle(p) ==
    /\ loadPc \in {"idle", "read"}
    /\ modifications < MaxModifications
    /\ disk[p].exists
    /\ disk' = [disk EXCEPT ![p] = NoFile]
    /\ modifications' = modifications + 1
    /\ UNCHANGED <<dataPath, fredquizIndex, loadPc, loadLocal, loadReturn, loads, reads,
                   nonCacheVars>>

\* process.env.DOCS_INDEX_PATH is set to another path (lines 20-25)
SetDataPath(p) ==
    /\ loadPc \in {"idle", "read"}
    /\ modifications < MaxModifications
    /\ p # dataPath
    /\ dataPath' = p
    /\ modifications' = modifications + 1
    /\ UNCHANGED <<disk, fredquizIndex, loadPc, loadLocal, loadReturn, loads, reads,
                   nonCacheVars>>

\* loadIndex up to its await, lines 43-61: statSync, then the cached instance
\* if path and mtime are those of the cache
LoadStat ==
    /\ loadPc = "idle"
    /\ loads < MaxLoads
    /\ loads' = loads + 1
    /\ IF ~disk[dataPath].exists
       THEN /\ loadReturn' = [kind |-> "missing", instance |-> 0]
            /\ UNCHANGED <<loadPc, loadLocal>>
       ELSE IF CacheHit(fredquizIndex, dataPath, disk[dataPath].mtimeMs)
       THEN /\ loadReturn' = [kind |-> "cached", instance |-> fredquizIndex.instance]
            /\ UNCHANGED <<loadPc, loadLocal>>
       ELSE /\ loadPc' = "read"
            /\ loadLocal' = [indexPath |-> dataPath, mtimeMs |-> disk[dataPath].mtimeMs]
            /\ loadReturn' = NoReturn
    /\ UNCHANGED <<dataPath, disk, fredquizIndex, reads, modifications, nonCacheVars>>

\* loadIndex from the readFile on, lines 63-94: the file as it is now is read
\* and parsed, and the cache is set last
LoadRead ==
    /\ loadPc = "read"
    /\ reads' = reads + 1
    /\ loadPc' = "idle"
    /\ loadLocal' = NoLocal
    /\ LET file == disk[loadLocal.indexPath] IN
       IF ~file.exists
       THEN /\ loadReturn' = [kind |-> "missing", instance |-> 0]
            /\ UNCHANGED fredquizIndex
       ELSE IF ~file.valid
       THEN /\ loadReturn' = [kind |-> "failed", instance |-> 0]
            /\ UNCHANGED fredquizIndex
       ELSE /\ fredquizIndex' = [loaded |-> TRUE, indexPath |-> loadLocal.indexPath,
                                 mtimeMs |-> loadLocal.mtimeMs, content |-> file.content,
                                 instance |-> loads]
            /\ loadReturn' = [kind |-> "loaded", instance |-> loads]
    /\ UNCHANGED <<dataPath, disk, loads, modifications, nonCacheVars>>

NextCache ==
    \/ \E p \in Paths, m \in Mtimes, valid \in BOOLEAN : WriteBundle(p, m, valid)
    \/ \E p \in Paths : DeleteBundle(p)
    \/ \E p \in Paths : SetDataPath(p)
    \/ LoadStat
    \/ LoadRead

(***************************************************************************)
(* The lock around the OpenAI sync (lib/openai-file-search.ts):            *)
(* syncOpenAIFiles and syncOpenAIForSelection read                         *)
(* globalThis.__fredquiz_openai_sync_lock, await it when it is set, then   *)
(* store a promise of their own, run the guarded section and, in the       *)
(* finally block, resolve their promise and set the global to undefined.   *)
(* A promise is named by the caller that made it: a caller has at most one *)
(* unresolved promise, the one of the section it is in.                    *)
(***************************************************************************)
SyncCallers == {1, 2, 3}
SyncFunctions == {"syncOpenAIFiles", "syncOpenAIForSelection"}

\* lines 241-244 / 360-363: the global is overwritten with a new promise
TakeLock(c) ==
    /\ syncLock' = c
    /\ syncPc' = [syncPc EXCEPT ![c] = "inside"]
    /\ syncAwaited' = [syncAwaited EXCEPT ![c] = 0]

\* no sync in progress: the state of the variables under the other specifications
SyncOff ==
    /\ syncLock = 0
    /\ syncPc = [c \in SyncCallers |-> "off"]
    /\ syncAwaited = [c \in SyncCallers |-> 0]
    /\ syncFn = [c \in SyncCallers |-> "none"]
    /\ syncResult = [c \in SyncCallers |-> "none"]

InitSync ==
    /\ syncLock = 0
    /\ syncPc = [c \in SyncCallers |-> "idle"]
    /\ syncAwaited = [c \in SyncCallers |-> 0]
    /\ syncFn = [c \in SyncCallers |-> "none"]
    /\ syncResult = [c \in SyncCallers |-> "none"]

(***************************************************************************)
(* A caller reaches lines 238-239 / 357-358: it reads the global and       *)
(* awaits the promise found there, or, finding undefined, goes on to take  *)
(* the lock in the same synchronous run.  A caller gets here from the      *)
(* await of readSyncState (line 235 / 354), after the continuations of a   *)
(* promise resolved before have run: no caller is ready at that moment.    *)
(***************************************************************************)
SyncCall(c, fn) ==
    /\ syncPc[c] = "idle"
    /\ \A d \in SyncCallers : syncPc[d] # "ready"
    /\ syncFn' = [syncFn EXCEPT ![c] = fn]
    /\ syncResult' = [syncResult EXCEPT ![c] = "none"]
    /\ IF syncLock # 0
       THEN /\ syncPc' = [syncPc EXCEPT ![c] = "waiting"]
            /\ syncAwaited' = [syncAwaited EXCEPT ![c] = syncLock]
            /\ syncLock' = syncLock
       ELSE TakeLock(c)
    /\ UNCHANGED nonSyncVars

(***************************************************************************)
(* The awaited promise was resolved: the caller goes on after line 239 /   *)
(* 358 and takes the lock; the global is not read again.                   *)
(***************************************************************************)
SyncResume(c) ==
    /\ syncPc[c] = "ready"
    /\ TakeLock(c)
    /\ UNCHANGED <<syncFn, syncResult>>
    /\ UNCHANGED nonSyncVars

(***************************************************************************)
(* The guarded section ends, by return or by throw, and the finally block  *)
(* runs (lines 342-345 / 461-464): the caller's promise is resolved, which *)
(* readies every caller awaiting it, and the global is set to undefined.   *)
(***************************************************************************)
SyncFinally(c, outcome) ==
    /\ syncPc[c] = "inside"
    /\ syncPc' = [d \in SyncCallers |->
                    IF d = c THEN "idle"
                    ELSE IF syncPc[d] = "waiting" /\ syncAwaited[d] = c THEN "ready"
                    ELSE syncPc[d]]
    /\ syncLock' = 0
    /\ syncResult' = [syncResult EXCEPT ![c] = outcome]
    /\ UNCHANGED <<syncAwaited, syncFn>>
    /\ UNCHANGED nonSyncVars

NextSync ==
    \/ \E c \in SyncCallers, fn \in SyncFunctions : SyncCall(c, fn)
    \/ \E c \in SyncCallers : SyncResume(c)
    \/ \E c \in SyncCallers, outcome \in {"returned", "threw"} : SyncFinally(c, outcome)


vars == <<crawlVars, searchVars, expandVars, matchVars, excerptVars, cacheVars, syncVars>>

Init == InitCrawl /\ SearchOff /\ ExpandOff /\ MatchOff /\ ExcerptOff /\ CacheOff /\ SyncOff
Next == NextCrawl
Spec == Init /\ [][Next]_vars

\* no crawl: the state of the crawler variables under SpecSearch
CrawlOff ==
    /\ source = {}
    /\ complete = FALSE
    /\ nextId = 1
    /\ notFoundStreak = 0
    /\ items = <<>>
    /\ pc = [c \in OneCall |-> "idle"]
    /\ timeBudgetMs = [c \in OneCall |-> 0]
    /\ elapsed = [c \in OneCall |-> 0]
    /\ startId = [c \in OneCall |-> 0]
    /\ newlyIndexed = [c \in OneCall |-> 0]
    /\ issued = [c \in OneCall |-> 0]
    /\ recovered = [c \in OneCall |-> FALSE]
    /\ response = [c \in OneCall |-> NoResponse]
    /\ fetchLog = <<>>
    /\ processed = {}
    /\ lastBatch = NoBatch
    /\ errors = 0

InitS == CrawlOff /\ InitSearch /\ ExpandOff /\ MatchOff /\ ExcerptOff /\ CacheOff /\ SyncOff
NextSearch == SearchDocs
SpecSearch == InitS /\ [][NextSearch]_vars

InitE == CrawlOff /\ SearchOff /\ InitExpand /\ MatchOff /\ ExcerptOff /\ CacheOff /\ SyncOff
NextExpand == ExpandHeaderContext
SpecExpand == InitE /\ [][NextExpand]_vars

InitM == CrawlOff /\ SearchOff /\ ExpandOff /\ InitMatch /\ ExcerptOff /\ CacheOff /\ SyncOff
NextMatch == Lookup \/ LookupFails
SpecMatch == InitM /\ [][NextMatch]_vars

InitX == CrawlOff /\ SearchOff /\ ExpandOff /\ MatchOff /\ InitExcerpt /\ CacheOff /\ SyncOff
NextExcerpt == MakeExcerpt
SpecExcerpt == InitX /\ [][NextExcerpt]_vars

InitC == CrawlOff /\ SearchOff /\ ExpandOff /\ MatchOff /\ ExcerptOff /\ InitCache /\ SyncOff
SpecCache == InitC /\ [][NextCache]_vars

InitY == CrawlOff /\ SearchOff /\ ExpandOff /\ MatchOff /\ ExcerptOff /\ CacheOff /\ InitSync
SpecSync == InitY /\ [][NextSync]_vars
\* the guarded section ends and a readied caller is resumed
SpecSyncFair ==
    /\ SpecSync
    /\ \A c \in SyncCallers :
          /\ WF_vars(SyncResume(c))
          /\ WF_vars(\E outcome \in {"returned", "threw"} : SyncFinally(c, outcome))

(***************************************************************************)
(* The crawler started on a state that an earlier run or an older version  *)
(* of the route left in globalThis.__fredquiz_fsquiz_index: complete with  *)
(* no entry, complete with entries, not complete, or with a cursor below 1.*)
(***************************************************************************)
RecoverStates ==
    { [complete |-> TRUE, nextId |-> 1, notFoundStreak |-> 0, items |-> <<>>],
      [complete |-> TRUE, nextId |-> 9, notFoundStreak |-> 4, items |-> <<>>],
      [complete |-> TRUE, nextId |-> 17, notFoundStreak |-> 4, items |-> <<>>],
      [complete |-> TRUE, nextId |-> 9, notFoundStreak |-> 4, items |-> <<1>>],
      [complete |-> TRUE, nextId |-> 17, notFoundStreak |-> 4, items |-> <<1, 2, 3>>],
      [complete |-> FALSE, nextId |-> 9, notFoundStreak |-> 0, items |-> <<>>],
      [complete |-> FALSE, nextId |-> 0, notFoundStreak |-> 0, items |-> <<>>] }

RecoverSources == {s \in Sources : Cardinality(s) <= minIndexedBeforeStop}

InitRecover ==
    /\ source \in RecoverSources
    /\ \E st \in RecoverStates :
          /\ complete = st.complete
          /\ nextId = st.nextId
          /\ notFoundStreak = st.notFoundStreak
          /\ items = st.items
    /\ pc = [c \in OneCall |-> "idle"]
    /\ timeBudgetMs = [c \in OneCall |-> 0]
    /\ elapsed = [c \in OneCall |-> 0]
    /\ startId = [c \in OneCall |-> 0]
    /\ newlyIndexed = [c \in OneCall |-> 0]
    /\ issued = [c \in OneCall |-> 0]
    /\ recovered = [c \in OneCall |-> FALSE]
    /\ response = [c \in OneCall |-> NoResponse]
    /\ fetchLog = <<>>
    /\ processed = {}
    /\ lastBatch = NoBatch
    /\ errors = 0

InitR == InitRecover /\ SearchOff /\ ExpandOff /\ MatchOff /\ ExcerptOff /\ CacheOff /\ SyncOff
SpecRecover == InitR /\ [][NextCrawl]_vars

(***************************************************************************)
(* Two requests that interleave on the shared crawl state.  The route is   *)
(* an async handler on one thread: control passes from one request to the  *)
(* other only at the await of Promise.all (line 215), which is the step    *)
(* from StartBatch to BatchResolve / BatchError.  The behaviours start     *)
(* where earlier requests left the crawl: one batch before the count of    *)
(* 200 entries can be reached, every identifier below the cursor probed.   *)
(***************************************************************************)
\* the cursor from which the two requests go on
CrawledTo == minIndexedBeforeStop - batchSize + 1

\* the records of S among 1..n, in the order in which one request indexes them
Ascending(S, n) ==
    LET T == S \cap (1..n)
    IN [k \in 1..Cardinality(T) |->
          CHOOSE x \in T : Cardinality({y \in T : y < x}) = k - 1]

\* the not-found streak after the identifiers 1..n have been handled in order
StreakAfter(S, n) ==
    LET T == (S \cap (1..n)) \cup {0}
    IN n - (CHOOSE x \in T : \A y \in T : y <= x)

\* the crawl stands at CrawledTo, no request running in any of the slots
InitCrawled(slots) ==
    /\ source \in Sources
    /\ complete = FALSE
    /\ nextId = CrawledTo
    /\ notFoundStreak = StreakAfter(source, CrawledTo - 1)
    /\ items = Ascending(source, CrawledTo - 1)
    /\ pc = [c \in slots |-> "idle"]
    /\ timeBudgetMs = [c \in slots |-> 0]
    /\ elapsed = [c \in slots |-> 0]
    /\ startId = [c \in slots |-> 0]
    /\ newlyIndexed = [c \in slots |-> 0]
    /\ issued = [c \in slots |-> 0]
    /\ recovered = [c \in slots |-> FALSE]
    /\ response = [c \in slots |-> NoResponse]
    /\ fetchLog = [k \in 1..(CrawledTo - 1) |-> k]
    /\ processed = 1..(CrawledTo - 1)
    /\ lastBatch = NoBatch
    /\ errors = 0

InitConcurrent == InitCrawled(TwoCalls)

InitK == InitConcurrent /\ SearchOff /\ ExpandOff /\ MatchOff /\ ExcerptOff /\ CacheOff /\ SyncOff

\* each of the two requests is made once
Request(c, budget) == response[c] = NoResponse /\ CallStart(c, budget)

NextConcurrent ==
    \/ \E c \in Calls, b \in Budgets : Request(c, b)
    \/ Tick
    \/ \E c \in Calls : LoopExit(c)
    \/ \E c \in Calls : StartBatch(c)
    \/ \E c \in Calls : BatchResolve(c)
    \/ \E c \in Calls : BatchError(c)

SpecConcurrent == InitK /\ [][NextConcurrent]_vars

(***************************************************************************)
(* The crawler under fair scheduling: the clock advances, the fetches of a *)
(* batch settle (fetchQuestionById resolves or throws), the loop takes its *)
(* next step, and requests with a positive budget keep arriving.  A call   *)
(* with a positive budget issues its first batch: the budget test of the   *)
(* first iteration (line 209) runs in the synchronous run that took        *)
(* startedAt (line 202).  The behaviours start where earlier requests     *)
(* left the crawl, as those of SpecConcurrent do, with one request slot.   *)
(***************************************************************************)
Fairness ==
    /\ WF_vars(Tick)
    /\ \A c \in OneCall :
          /\ SF_vars(\E b \in Budgets : b > 0 /\ CallStart(c, b))
          /\ WF_vars(LoopExit(c))
          /\ SF_vars(StartBatch(c))
          /\ WF_vars(BatchResolve(c) \/ BatchError(c))

InitL == InitCrawled(OneCall) /\ SearchOff /\ ExpandOff /\ MatchOff /\ ExcerptOff /\ CacheOff /\ SyncOff
SpecLive == InitL /\ [][NextCrawl]_vars /\ Fairness


(***************************************************************************)
(* Claims about the crawler, checked under Spec.                           *)
(***************************************************************************)
\* the number of fetches issued for id i so far
FetchCount(i) == Cardinality({k \in 1..Len(fetchLog) : fetchLog[k] = i})

\* the ids of the batch the history record b describes
BatchOf(b) == b.startId .. (b.startId + 7)

IsPrefix(s, t) == Len(s) <= Len(t) /\ SubSeq(t, 1, Len(s)) = s

\* C1: over any sequence of calls, failed ones included, the cursor nextId
\* never decreases; a step that starts a batch raises it by exactly 8 and no
\* other step changes it, so it stays 8 past the batch's first id when the
\* batch resolves, also when all 8 ids are not found below 200 entries.
C1_CursorMonotone ==
    [][ /\ nextId' >= nextId
        /\ \A c \in Calls :
              /\ (pc[c] = "loop" /\ pc'[c] = "await") => nextId' = nextId + 8
              /\ (pc[c] = "await" /\ pc'[c] # "await")
                    => (nextId' = nextId /\ nextId' = startId[c] + 8)
        /\ (nextId' # nextId) => \E c \in Calls : pc[c] = "loop" /\ pc'[c] = "await"
      ]_vars

\* C1 witness: after a failed call, a batch of 8 not-found ids was resolved
\* with fewer than 200 entries indexed; the cursor is past it, nothing latched.
C1_Witness ==
    /\ errors >= 1
    /\ lastBatch.outcome = "resolved"
    /\ BatchOf(lastBatch) \cap source = {}
    /\ lastBatch.itemsBefore < 200
    /\ Len(items) > 0
    /\ nextId = lastBatch.startId + 8
    /\ ~complete

\* C2: completion is a one-way latch: from a state that is complete with a
\* non-empty index, every step keeps complete, the cursor, the streak, the
\* index and the fetch log, and a call made in it returns at once (the request
\* is idle again in the same step) with status 200 and newlyIndexed = 0.
C2_CompletionLatch ==
    [][ (complete /\ Len(items) > 0) =>
          /\ complete'
          /\ UNCHANGED <<nextId, notFoundStreak, items, fetchLog, processed>>
          /\ \A c \in Calls :
                pc[c] = "idle" =>
                   /\ pc'[c] = "idle"
                   /\ issued'[c] = 0 \/ issued'[c] = issued[c]
                   /\ \/ response'[c] = response[c]
                      \/ response'[c] = [status |-> 200, newlyIndexed |-> 0,
                                         indexedCount |-> Len(items),
                                         complete |-> TRUE]
      ]_vars

\* C2 witness: a call made after completion latched has returned: it issued
\* no batch and reports newlyIndexed = 0 on the complete, non-empty index.
C2_Witness ==
    /\ complete
    /\ Len(items) >= 200
    /\ pc[1] = "idle"
    /\ issued[1] = 0
    /\ response[1] = [status |-> 200, newlyIndexed |-> 0,
                      indexedCount |-> Len(items), complete |-> TRUE]

\* C3 as stated: when a batch latched completion on a not-found id, no fetch
\* was issued for the ids of that batch that follow it.
C3_RemainderNotProbed ==
    (lastBatch.outcome = "resolved" /\ lastBatch.stoppedAt > 0) =>
        \A i \in BatchOf(lastBatch) :
            i > lastBatch.stoppedAt => FetchCount(i) = 0

\* C3 as amended: with at least 200 entries indexed before the batch, 4
\* consecutive not-found ids in a batch latch completion no later than the 4th
\* of them (on the 4th when the streak was 0 before the batch); the latch is
\* on a not-found id with the streak at 4, and the results behind it are not
\* handled (nothing of them is appended or counted), although all 8 ids of the
\* batch were fetched.  A batch that did not latch handled all 8 results.
C3_StopCondition ==
    lastBatch.outcome = "resolved" =>
        /\ \A i \in BatchOf(lastBatch) :
              ( /\ i + 3 < lastBatch.startId + 8
                /\ (i .. (i + 3)) \cap source = {}
                /\ lastBatch.itemsBefore >= 200 )
              => /\ lastBatch.stoppedAt > 0
                 /\ lastBatch.stoppedAt <= i + 3
                 /\ ( /\ (lastBatch.startId .. i) \cap source
                             = (lastBatch.startId .. (i - 1))
                       /\ (i = lastBatch.startId => lastBatch.streakBefore = 0) )
                    => lastBatch.stoppedAt = i + 3
        /\ lastBatch.stoppedAt > 0 =>
              /\ complete
              /\ notFoundStreak = 4
              /\ Len(items) >= 200
              /\ lastBatch.stoppedAt \in BatchOf(lastBatch) \ source
              /\ \A i \in BatchOf(lastBatch) :
                    /\ FetchCount(i) = 1
                    /\ (i \in processed) = (i <= lastBatch.stoppedAt)
              /\ \A k \in 1..Len(items) : items[k] < lastBatch.stoppedAt
        /\ lastBatch.stoppedAt = 0 =>
              /\ ~complete
              /\ BatchOf(lastBatch) \subseteq processed

\* C3 witness: completion latched on the 4th not-found id of a batch whose
\* later ids include one that holds a record: it was fetched, never handled.
C3_Witness ==
    /\ lastBatch.outcome = "resolved"
    /\ lastBatch.stoppedAt = lastBatch.startId + 3
    /\ lastBatch.itemsBefore >= 200
    /\ \E i \in BatchOf(lastBatch) \cap source :
          i > lastBatch.stoppedAt /\ FetchCount(i) = 1 /\ i \notin processed

\* C4: completion never latches below 200 indexed entries, whatever the
\* length of the not-found streak.
C4_NoLatchBelowMinimum ==
    complete => Len(items) >= 200

\* C4 witness: the streak is at 4 or more with a non-empty index of fewer
\* than 200 entries, and the state is not complete.
C4_Witness ==
    /\ notFoundStreak >= 4
    /\ Len(items) > 0 /\ Len(items) < 200
    /\ lastBatch.outcome = "resolved"
    /\ ~complete

\* C5: the index is strictly increasing in id (hence holds no id twice), in
\* every state of sequential calls, failed calls included.
C5_IndexOrdered ==
    \A k \in 1..(Len(items) - 1) : items[k] < items[k + 1]

\* C5 witness: the index was extended by a call that followed a failed call,
\* so that it skips the ids of the failed batch.
C5_Witness ==
    /\ errors >= 1
    /\ \E k \in 1..(Len(items) - 1) : items[k + 1] > items[k] + 1
    /\ Len(items) >= 200

\* C6: a batch whose fetch fails ends the call with the error (POST answers
\* 502), leaves the index, the completion flag, the cursor and the streak as
\* they are; no step ever removes an entry from the index; and the next call
\* enters its loop on the stored state unchanged.
C6_FetchErrorKeepsProgress ==
    [][ /\ IsPrefix(items, items')
        /\ (errors' # errors) =>
              /\ UNCHANGED <<items, complete, nextId, notFoundStreak>>
              /\ \E c \in Calls : /\ pc[c] = "await" /\ pc'[c] = "idle"
                                  /\ response'[c].status = 502
        /\ \A c \in Calls :
              (pc[c] = "idle" /\ pc'[c] = "loop")
                 => UNCHANGED <<items, complete, nextId, notFoundStreak>>
      ]_vars

\* C6 witness: the batch 201..208 failed with 200 entries indexed; a later
\* call went on from the stored cursor and indexed 209..216 behind them.
C6_Witness ==
    /\ errors = 1
    /\ FetchCount(203) = 1 /\ 203 \notin processed
    /\ Len(items) = 208
    /\ items[200] = 200 /\ items[201] = 209
    /\ ~complete

\* C7: the fetches issued so far are, in order, those of the ids 1, 2, ...
\* up to the cursor: every id below the cursor once and no id twice;
\* while a batch is in flight the cursor is already 8 past its first id.
C7_NoIdFetchedTwice ==
    /\ Len(fetchLog) = nextId - 1
    /\ \A k \in 1..Len(fetchLog) : fetchLog[k] = k
    /\ \A c \in Calls : pc[c] = "await" => nextId = startId[c] + 8

\* C7 witness: a batch of a call that followed a failed call is in flight.
C7_Witness ==
    /\ errors = 1
    /\ pc[1] = "await"
    /\ issued[1] = 1
    /\ startId[1] > 8
    /\ FetchCount(startId[1]) = 1

\* C8 as stated: a batch is started only if the state is not complete and the
\* elapsed time is strictly less than the time budget.
C8_StartsOnlyBelowBudget ==
    [][ \A c \in Calls :
          (pc[c] = "loop" /\ pc'[c] = "await")
             => (~complete /\ elapsed[c] < timeBudgetMs[c]) ]_vars

\* C8 as amended: the budget is tested only before a batch is started: a
\* batch is started only if the state is not complete and the elapsed time is
\* at most the budget (with budget 0 a batch is issued while the clock still
\* shows the start time); the loop is left only when complete or over budget;
\* and a batch in flight when the budget runs out is handled to its end.
C8_BudgetCheckedBeforeBatch ==
    [][ \A c \in Calls :
          /\ (pc[c] = "loop" /\ pc'[c] = "await")
                => (~complete /\ elapsed[c] <= timeBudgetMs[c])
          /\ (pc[c] = "loop" /\ pc'[c] = "idle")
                => (complete \/ elapsed[c] > timeBudgetMs[c])
          /\ (pc[c] = "await" /\ pc'[c] # "await" /\ errors' = errors)
                => /\ lastBatch'.startId = startId[c]
                   /\ \/ BatchOf(lastBatch') \subseteq processed'
                      \/ complete'
      ]_vars

\* C8 witness: a call with budget 0 started a batch; the budget ran out while
\* the batch was in flight and all 8 results were still handled.
C8_Witness ==
    /\ timeBudgetMs[1] = 0
    /\ issued[1] = 1
    /\ lastBatch.outcome = "resolved"
    /\ lastBatch.late
    /\ lastBatch.startId = startId[1]
    /\ BatchOf(lastBatch) \subseteq processed
    /\ newlyIndexed[1] = 8


(***************************************************************************)
(* Claims about searchDocs, checked under SpecSearch.                      *)
(***************************************************************************)
\* C9: search returns at most `limit` chunks, for every limit >= 0.
C9_AtMostLimit ==
    (searchPc = "done" /\ searchResult.limit >= 0)
       => Len(searchResult.picked) <= searchResult.limit

\* C10: the list search returns is sorted by descending score, also when the
\* backfill pass has added chunks.
C10_SortedByScore ==
    searchPc = "done" =>
       \A k \in 1..(Len(searchResult.picked) - 1) :
           searchResult.picked[k].score >= searchResult.picked[k + 1].score

\* the entries of the list s that belong to file f, in the order of s
OfFile(s, f) == SelectSeq(s, LAMBDA x : x.fileName = f)

\* C11: when the capped pass alone yields `limit` chunks (no backfill runs),
\* no file contributes more than 4 chunks, the chunks taken of each file are
\* the first (highest-scored) candidates of that file, and the result is in
\* the candidates' score order.
C11_PerSourceCap ==
    (searchPc = "done" /\ searchResult.firstPass >= searchResult.limit) =>
       /\ Len(searchResult.picked) = searchResult.firstPass
       /\ \A f \in FileNames :
             LET mine == OfFile(searchResult.picked, f)
                 all == OfFile(Out(searchParams), f)
             IN /\ Len(mine) <= 4
                /\ Len(mine) <= Len(all)
                /\ mine = SubSeq(all, 1, Len(mine))
       /\ \A k \in 1..(Len(searchResult.picked) - 1) :
             searchResult.picked[k].score >= searchResult.picked[k + 1].score

\* C11 witness: limit 5 is met by the capped pass; Rules.PDF gave 4 chunks
\* and its fifth candidate, scored above the chunk of notes.txt, was skipped.
C11_Witness ==
    /\ searchPc = "done"
    /\ searchResult.limit = 5
    /\ searchResult.firstPass = 5
    /\ searchResult.candidates = 6
    /\ Len(OfFile(searchResult.picked, "Rules.PDF")) = 4
    /\ searchResult.picked[5].fileName = "notes.txt"
    /\ searchParams.scores[5] > searchParams.scores[6]

\* the smaller of two numbers
\* C12: the number of chunks search returns equals min(limit, number of
\* candidates that pass the filters), and the chunks returned are distinct.
C12_BackfillComplete ==
    searchPc = "done" =>
       /\ Len(searchResult.picked)
             = Min(searchResult.limit, searchResult.candidates)
       /\ \A j, k \in 1..Len(searchResult.picked) :
             j # k => searchResult.picked[j].chunkId # searchResult.picked[k].chunkId

\* C12 for limits of 1 and more (the case the defect of C9 leaves alone)
C12_BackfillCompleteFromOne ==
    (searchPc = "done" /\ searchResult.limit >= 1) => C12_BackfillComplete


(***************************************************************************)
(* Claims about expandHeaderContext, checked under SpecExpand.             *)
(***************************************************************************)
ExpandMerged == expandArgs.retrieved \o expandResult.extras

IdsOf(s) == {s[k].chunkId : k \in 1..Len(s)}

\* C13: expand never returns more than maxTotal chunks, whatever the ranked
\* input and the options are, inputs without extras and inputs already longer
\* than maxTotal included.
C13_AtMostMaxTotal ==
    expandPc = "done" => Len(expandResult.out) <= expandArgs.opts.maxTotal

\* C13 as the code has it: a call that attaches no extra returns its input
\* unchanged, whatever its length; a call that attaches one returns at most
\* maxTotal chunks, or else nothing but the pinned chunks.
C13_AtMostMaxTotalUnlessPinned ==
    expandPc = "done" =>
       IF Len(expandResult.extras) = 0
       THEN expandResult.out = expandArgs.retrieved
       ELSE \/ Len(expandResult.out) <= expandArgs.opts.maxTotal
            \/ /\ IdsOf(expandResult.out) = expandResult.pinnedIds
               /\ Len(expandResult.out) = Cardinality(expandResult.pinnedIds)

\* an eviction that brought the output down to maxTotal
C13_Witness ==
    /\ expandPc = "done"
    /\ Len(expandResult.extras) > 0
    /\ Len(ExpandMerged) > expandArgs.opts.maxTotal
    /\ Len(expandResult.out) = expandArgs.opts.maxTotal
    /\ expandArgs.opts.maxTotal > 0

\* what C14 says of an over-long merge: only non-pinned chunks are removed,
\* lowest score first, min(overflow, number of non-pinned chunks) of them
EvictionRule ==
    LET merged == ExpandMerged
        out == expandResult.out
        pinned == expandResult.pinnedIds
        nonPinned == IdsOf(merged) \ pinned
        removed == IdsOf(merged) \ IdsOf(out)
        overflow == Len(merged) - expandArgs.opts.maxTotal
    IN /\ out = SelectSeq(merged, LAMBDA m : m.chunkId \notin removed)
       /\ removed \subseteq nonPinned
       /\ Cardinality(removed) = Min(overflow, Cardinality(nonPinned))
       /\ \A i, j \in 1..Len(merged) :
             (merged[i].chunkId \in removed /\ merged[j].chunkId \in nonPinned \ removed)
                => merged[i].score <= merged[j].score
       /\ pinned \subseteq IdsOf(out)

\* C14: when input plus extras exceed maxTotal, only non-pinned chunks are
\* removed, lowest score first, exactly min(overflow, number of non-pinned
\* chunks) of them, and every pinned chunk is in the output.
C14_EvictsLowestNonPinned ==
    (expandPc = "done" /\ Len(ExpandMerged) > expandArgs.opts.maxTotal) => EvictionRule

\* C14 as the code has it: the same, for the calls that attach at least one
\* extra (a call that attaches none returns its input unchanged).
C14_EvictsLowestNonPinnedWithExtras ==
    (/\ expandPc = "done"
     /\ Len(expandResult.extras) > 0
     /\ Len(ExpandMerged) > expandArgs.opts.maxTotal) => EvictionRule

\* a merge from which the lower-scored of two non-pinned chunks is removed
C14_Witness ==
    /\ expandPc = "done"
    /\ Len(expandResult.extras) > 0
    /\ Len(expandResult.out) = expandArgs.opts.maxTotal
    /\ \E i, j \in 1..Len(expandArgs.retrieved) :
          /\ expandArgs.retrieved[i].chunkId \notin IdsOf(expandResult.out)
          /\ expandArgs.retrieved[j].chunkId \in IdsOf(expandResult.out) \ expandResult.pinnedIds
          /\ expandArgs.retrieved[i].score < expandArgs.retrieved[j].score

(***************************************************************************)
(* Claims about the fuzzy matcher and the lookup, checked under SpecMatch. *)
(***************************************************************************)
\* the rule C15 states, on two normalized texts: 0 if one is empty, 1 if they
\* are equal, 0.95 if one contains the other and the shorter has 20 characters
\* or more, else the larger of 0.3 Jaccard + 0.7 overlap coefficient of the
\* token sets and of 0.85 for containment between texts of 4 characters or more
ReferenceScore(q, c) ==
    LET A == toTokens(q)
        B == toTokens(c)
        inter == Cardinality(A \cap B)
        union == Cardinality(A \cup B)
        smaller == Min(Cardinality(A), Cardinality(B))
        contained == includes(q, c) \/ includes(c, q)
        blend == IF inter = 0 THEN Frac(0, 1)
                 ELSE Frac(3 * inter * smaller + 7 * inter * union, 10 * union * smaller)
        sub == IF contained /\ Len(q) >= 4 /\ Len(c) >= 4 THEN Frac(17, 20) ELSE Frac(0, 1)
    IN IF q = "" \/ c = "" THEN Frac(0, 1)
       ELSE IF q = c THEN Frac(1, 1)
       ELSE IF contained /\ Min(Len(q), Len(c)) >= 20 THEN Frac(19, 20)
       ELSE IF FracGeq(blend, sub) THEN blend ELSE sub

\* C15: the score of the query against every candidate is the reference rule
\* applied in priority order (empty, equal, long substring, blend or 0.85).
C15_ScoreIsReferenceRule ==
    (matchPc = "done" /\ matchResult.status = 200) =>
       \A k \in 1..Len(matchArgs.items) :
          FracEq(matchResult.scores[k].score,
                 ReferenceScore(normalizeText(matchArgs.query),
                                normalizeText(matchArgs.items[k])))

\* one lookup with a 0.95 (long substring) and a blended score, and the
\* example of the claim: "Total current limit" against itself scores 1
C15_Witness ==
    /\ matchPc = "done"
    /\ matchResult.status = 200
    /\ matchArgs.query = "the penalty for a spin"
    /\ Len(matchArgs.items) = 2
    /\ FracEq(matchResult.scores[1].score, Frac(19, 20))
    /\ FracEq(matchResult.scores[2].score, Frac(31, 40))
    /\ FracEq(scoreMatch(IndexedQuestion(0, "Total current limit"),
                         IndexedQuestion(1, "Total current limit")), Frac(1, 1))

C16_Query == "describe the penalty for a spin"
C16_Candidate == "what is the penalty for a spin during dynamic events"

\* C16: the query 'describe the penalty for a spin' against the candidate
\* 'what is the penalty for a spin during dynamic events' scores 0.85 or more.
C16_ExampleAtLeast085 ==
    (/\ matchPc = "done"
     /\ matchResult.status = 200
     /\ matchArgs.query = C16_Query
     /\ matchArgs.items = <<C16_Candidate>>) =>
        FracGeq(matchResult.scores[1].score, Frac(17, 20))

\* C16 as the code has it: the query shares 4 of its 5 tokens with the 9-token
\* candidate and is no substring of it, the score is 0.3 * 4/10 + 0.7 * 4/5 =
\* 0.68, and the candidate is returned, 0.68 being above the threshold 0.4.
C16_ExampleScores068 ==
    (/\ matchPc = "done"
     /\ matchResult.status = 200
     /\ matchArgs.query = C16_Query
     /\ matchArgs.items = <<C16_Candidate>>) =>
        LET A == toTokens(normalizeText(C16_Query))
            B == toTokens(normalizeText(C16_Candidate))
        IN /\ Cardinality(A) = 5 /\ Cardinality(B) = 9 /\ Cardinality(A \cap B) = 4
           /\ ~includes(normalizeText(C16_Candidate), normalizeText(C16_Query))
           /\ FracEq(matchResult.scores[1].score, Frac(17, 25))
           /\ ~FracGeq(matchResult.scores[1].score, Frac(17, 20))
           /\ matchResult.matches = <<[questionId |-> 1, score |-> matchResult.scores[1].score]>>

C16_Witness ==
    /\ matchPc = "done"
    /\ matchResult.status = 200
    /\ matchArgs.query = C16_Query
    /\ matchArgs.items = <<C16_Candidate>>
    /\ Len(matchResult.matches) = 1

\* C17: the lookup returns the candidates that score 0.4 or more, highest
\* score first and equal scores in index order, cut to the first one; when
\* none scores 0.4 the answer is an empty match list in a 200 response.
C17_ConfidentBestFirst ==
    (matchPc = "done" /\ matchResult.status = 200) =>
       LET sc == matchResult.scores
           confident == {k \in 1..Len(sc) : FracGeq(sc[k].score, threshold)}
       IN /\ matchResult.ok
          /\ IF confident = {}
             THEN matchResult.matches = <<>>
             ELSE /\ Len(matchResult.matches) = lookupLimit
                  /\ \E k \in confident :
                        /\ matchResult.matches[1] = sc[k]
                        /\ sc[k].questionId = k
                        /\ \A j \in confident : FracGeq(sc[k].score, sc[j].score)
                        /\ \A j \in confident :
                              j < k => ~FracGeq(sc[j].score, sc[k].score)

\* two entries with the same score (their texts normalize to the same text):
\* the first of the two is returned
C17_Witness ==
    /\ matchPc = "done"
    /\ matchResult.status = 200
    /\ Len(matchArgs.items) = 2
    /\ FracEq(matchResult.scores[1].score, matchResult.scores[2].score)
    /\ FracGeq(matchResult.scores[1].score, threshold)
    /\ matchArgs.items[1] # matchArgs.items[2]
    /\ matchResult.matches = <<matchResult.scores[1]>>

(***************************************************************************)
(* Claim about makeExcerpt, checked under SpecExcerpt.                     *)
(***************************************************************************)
\* C18: when the earliest occurrence of a term is at offset i of the collapsed
\* text of length n, the excerpt is the slice [max(0, i - pad), min(n, i +
\* |term| + pad)) with pad = floor((900 - |term|) / 2), with '...' in front iff
\* the slice does not start at 0 and behind iff it does not end at n; for n =
\* 2000 and i = 1500 the term is in the middle, both markers are there and the
\* slice has at most 900 characters.  When no term occurs the excerpt is the
\* first 900 characters.
C18_ExcerptCentered ==
    excerptPc = "done" =>
       LET n == excerptArgs.n
           terms == excerptArgs.terms
           r == excerptResult
           occurring == {k \in 1..Len(terms) : terms[k].idx # -1}
       IN /\ r.prefix <=> r.start > 0
          /\ r.suffix <=> r.end < n
          /\ IF occurring = {} \/ n = 0
             THEN r.start = 0 /\ r.end = Min(n, 900)
             ELSE \E k \in occurring :
                     LET i == terms[k].idx
                         pad == (900 - terms[k].len) \div 2
                     IN /\ \A j \in occurring : i <= terms[j].idx
                        /\ r.start = Max(0, i - pad)
                        /\ r.end = Min(n, i + terms[k].len + pad)
                        /\ (n = 2000 /\ i = 1500) =>
                              /\ r.prefix /\ r.suffix
                              /\ r.end - r.start <= 900
                              /\ i - r.start = r.end - (i + terms[k].len)

\* the example of the claim: a text of 2000 characters whose earliest term is
\* at offset 1500, the excerpt cut on both sides
C18_Witness ==
    /\ excerptPc = "done"
    /\ excerptArgs.n = 2000
    /\ Len(excerptArgs.terms) = 2
    /\ excerptArgs.terms[1].idx = 1993
    /\ excerptArgs.terms[2].idx = 1500
    /\ excerptResult.start > 1000
    /\ excerptResult.prefix /\ excerptResult.suffix

(***************************************************************************)
(* Claim about the cache of loadIndex, checked under SpecCache.            *)
(***************************************************************************)
\* C19: a load whose token (the file's mtime, under the same path) is that of
\* the cached instance returns that instance without reading the bundle; a
\* load whose token differs reads the bundle again and replaces the cache; a
\* load that fails (bundle missing or not parsable) leaves the cache as it is.
C19_CacheRule ==
    [][ /\ (loadPc = "idle" /\ loads' = loads + 1) =>
             IF ~disk[dataPath].exists
             THEN /\ loadReturn'.kind = "missing"
                  /\ fredquizIndex' = fredquizIndex
                  /\ reads' = reads
             ELSE IF /\ fredquizIndex.loaded
                     /\ fredquizIndex.indexPath = dataPath
                     /\ fredquizIndex.mtimeMs = disk[dataPath].mtimeMs
             THEN /\ loadReturn' = [kind |-> "cached", instance |-> fredquizIndex.instance]
                  /\ fredquizIndex' = fredquizIndex
                  /\ reads' = reads
                  /\ loadPc' = "idle"
             ELSE loadPc' = "read"
        /\ (loadPc = "read" /\ loadPc' = "idle") =>
             /\ reads' = reads + 1
             /\ IF disk[loadLocal.indexPath].exists /\ disk[loadLocal.indexPath].valid
                THEN /\ loadReturn'.kind = "loaded"
                     /\ loadReturn'.instance = fredquizIndex'.instance
                     /\ fredquizIndex'.instance # fredquizIndex.instance
                     /\ fredquizIndex'.indexPath = loadLocal.indexPath
                     /\ fredquizIndex'.mtimeMs = loadLocal.mtimeMs
                     /\ fredquizIndex'.content = disk[loadLocal.indexPath].content
                ELSE /\ loadReturn'.kind \in {"missing", "failed"}
                     /\ fredquizIndex' = fredquizIndex
      ]_vars

\* three loads: the first reads, the second reads again after the mtime has
\* changed, the third returns the instance of the second although the file
\* has been rewritten under the same mtime
C19_Witness ==
    /\ loadReturn = [kind |-> "cached", instance |-> 2]
    /\ loads = 3
    /\ reads = 2
    /\ fredquizIndex.instance = 2
    /\ disk[dataPath].content # fredquizIndex.content

(***************************************************************************)
(* Claim about the recovery rule, checked under SpecRecover.               *)
(***************************************************************************)
\* C20: a call of ensureIndexed on a state that is complete with no entry
\* replaces it by {complete = false, cursor = 1, streak = 0, no entry} and the
\* same call goes on to probe, from identifier 1 on; a state that is complete
\* with at least one entry is never reset.
C20_RecoveryRule ==
    [][ \A c \in Calls :
          /\ (pc[c] = "idle" /\ (pc'[c] # pc[c] \/ response'[c] # response[c])) =>
                IF complete /\ Len(items) = 0
                THEN /\ ~complete' /\ nextId' = 1 /\ notFoundStreak' = 0 /\ items' = <<>>
                     /\ pc'[c] = "loop"
                     /\ recovered'[c]
                ELSE /\ ~recovered'[c]
                     /\ complete => /\ UNCHANGED <<complete, nextId, notFoundStreak, items>>
                                    /\ pc'[c] = "idle"
                                    /\ response'[c].status = 200
          /\ (recovered[c] /\ issued[c] = 0 /\ issued'[c] = 1) =>
                /\ startId'[c] = 1
                /\ fetchLog' = fetchLog \o [k \in 1..batchSize |-> k]
          /\ (complete /\ Len(items) >= 1) =>
                UNCHANGED <<complete, nextId, notFoundStreak, items>>
      ]_vars

\* a call that found the state complete with no entry has un-latched it,
\* fetched the ids from 1 on and indexed the record 1
C20_Witness ==
    /\ recovered[1]
    /\ issued[1] >= 1
    /\ fetchLog # <<>> /\ fetchLog[1] = 1
    /\ items # <<>> /\ items[1] = 1

(***************************************************************************)
(* Claims about the walks of expandHeaderContext, checked under SpecExpand.*)
(***************************************************************************)
\* the extras attached for the header h, in the order of their attachment
ExtrasFor(h) == SelectSeq(expandResult.extras, LAMBDA e : e.forHeader = h)

\* the summed text length of a sequence of chunks
RECURSIVE SumLen(_)
SumLen(s) == IF Len(s) = 0 THEN 0 ELSE s[1].len + SumLen(Tail(s))

\* C21: at most maxExtraTotal extras in all and at most maxPerHeader for one
\* header; every extra is a non-empty chunk of its header's file that lies
\* after the header in the order of the keys; no chunk id is twice in the
\* output, an extra being neither a chunk of the input nor an earlier extra.
C21_ExtrasBounded ==
    expandPc = "done" =>
       LET extras == expandResult.extras
           out == expandResult.out
       IN /\ Len(extras) <= expandArgs.opts.maxExtraTotal
          /\ \A h \in ExpandChunkIds : Len(ExtrasFor(h)) <= expandArgs.opts.maxPerHeader
          /\ \A k \in 1..Len(extras) :
                LET e == ExpandChunk(extras[k].chunkId)
                    h == ExpandChunk(extras[k].forHeader)
                IN /\ e.len > 0
                   /\ h.header
                   /\ h.chunkId \in IdsOf(expandArgs.retrieved)
                   /\ e.fileId = h.fileId
                   /\ chunkOrderKey(e) > chunkOrderKey(h)
                   /\ e.chunkId \notin IdsOf(expandArgs.retrieved)
                   /\ \A j \in 1..(k - 1) : extras[j].chunkId # e.chunkId
          /\ \A i, j \in 1..Len(out) : i # j => out[i].chunkId # out[j].chunkId

\* two headers of the input with extras each, the total at maxExtraTotal and
\* the empty chunk behind the first header passed over
C21_Witness ==
    /\ expandPc = "done"
    /\ Len(expandResult.extras) = expandArgs.opts.maxExtraTotal
    /\ Len(ExtrasFor(1)) = 2
    /\ Len(ExtrasFor(7)) = 1
    /\ 6 \notin IdsOf(expandArgs.retrieved)

\* C22: for each header the summed text length of the chunks attached for it
\* stays within maxExtraChars.
C22_WithinCharBudget ==
    expandPc = "done" =>
       \A h \in ExpandChunkIds : SumLen(ExtrasFor(h)) <= expandArgs.opts.maxExtraChars

\* C22 as the code has it: the budget is looked at after a chunk is attached.
\* The first chunk of a walk is attached whatever the budget is, and a further
\* one only while the sum of those before it is below maxExtraChars.
C22_BudgetCheckedAfterAttach ==
    expandPc = "done" =>
       \A h \in ExpandChunkIds :
          LET mine == ExtrasFor(h)
          IN \A k \in 2..Len(mine) :
                SumLen(SubSeq(mine, 1, k - 1)) < expandArgs.opts.maxExtraChars

\* a walk that went past its budget: 3 + 2 characters attached under a budget of 4
C22_Witness ==
    /\ expandPc = "done"
    /\ expandArgs.opts.maxExtraChars = 4
    /\ Len(ExtrasFor(1)) = 2
    /\ SumLen(ExtrasFor(1)) = 5

\* C23: once a walk has attached a chunk, the first header chunk it meets ends
\* it: that header chunk is not attached and no chunk behind it is attached
\* for this header, whether or not the header chunk is part of the input.
C23_WalkEndsAtNextHeader ==
    expandPc = "done" =>
       \A h \in ExpandChunkIds :
          LET mine == ExtrasFor(h)
          IN \A k \in 1..Len(mine) : \A g \in ExpandChunkIds :
                (/\ ExpandChunk(g).header
                 /\ ExpandChunk(g).fileId = ExpandChunk(h).fileId
                 /\ chunkOrderKey(ExpandChunk(g)) > chunkOrderKey(ExpandChunk(mine[k].chunkId)))
                => \A j \in 1..Len(mine) :
                      chunkOrderKey(ExpandChunk(mine[j].chunkId)) < chunkOrderKey(ExpandChunk(g))

\* C24: eviction removes only chunks of the input that are no headers: every
\* header chunk of the input, wherever it stands and however many extras were
\* attached before it, is pinned and is in the output.
C24_InputHeadersKept ==
    expandPc = "done" =>
       /\ \A k \in 1..Len(expandArgs.retrieved) :
             expandArgs.retrieved[k].header =>
                /\ expandArgs.retrieved[k].chunkId \in expandResult.pinnedIds
                /\ expandArgs.retrieved[k].chunkId \in IdsOf(expandResult.out)
       /\ \A k \in 1..Len(ExpandMerged) :
             ExpandMerged[k].chunkId \notin IdsOf(expandResult.out) =>
                /\ ~ExpandMerged[k].header
                /\ ExpandMerged[k].chunkId \in IdsOf(expandArgs.retrieved)

(***************************************************************************)
(* Further claims about the crawler, checked under Spec.                   *)
(***************************************************************************)
\* the last identifier at or below n whose result was handled, 0 if none
RECURSIVE LastProcessedFrom(_)
LastProcessedFrom(n) ==
    IF n <= 0 THEN 0 ELSE IF n \in processed THEN n ELSE LastProcessedFrom(n - 1)

LastProcessed == LastProcessedFrom(nextId - 1)

\* the number of identifiers, contiguous in id and ending at k, whose results
\* were all handled and all not-found
NotFoundRunTo(k) ==
    LET last == CHOOSE j \in 0..k :
                   /\ j = 0 \/ j \in source \/ j \notin processed
                   /\ \A i \in (j + 1)..k : i \in processed /\ i \notin source
    IN k - last

NotFoundRun == NotFoundRunTo(LastProcessed)

\* C25: notFoundStreak is the number of identifiers, contiguous in id and
\* ending at the last processed one, that all returned not-found, also across
\* batches, across calls and after a call that failed; so completion latches
\* only on 4 identifiers with consecutive numbers that all returned not-found.
C25_StreakIsContiguous ==
    /\ notFoundStreak = NotFoundRun
    /\ complete => NotFoundRun >= maxConsecutiveNotFound

\* C29: after any sequence of calls in which no fetch failed, every identifier
\* below the cursor for which the source has a record is in the index, those
\* of the batch in which completion latched included.
C29_IndexComplete ==
    (errors = 0 /\ \A c \in Calls : pc[c] = "idle") =>
       \A id \in source : id < nextId => \E k \in 1..Len(items) : items[k] = id

\* C29 as the code has it: the same, but for the identifiers of the latching
\* batch that lie behind the one on which completion latched; their results
\* are dropped.
C29_IndexCompleteUpToLatch ==
    (errors = 0 /\ \A c \in Calls : pc[c] = "idle") =>
       /\ \A id \in source :
             (id < nextId /\ id \in processed) => \E k \in 1..Len(items) : items[k] = id
       /\ \A id \in 1..(nextId - 1) :
             id \notin processed =>
                /\ complete
                /\ lastBatch.stoppedAt > 0
                /\ id > lastBatch.stoppedAt
                /\ id < lastBatch.startId + batchSize

\* the record 207 was fetched in the latching batch 201..208 and is not indexed
C29_Witness ==
    /\ errors = 0
    /\ pc[1] = "idle"
    /\ complete
    /\ 207 \in source
    /\ nextId = 209
    /\ Len(fetchLog) = 208
    /\ \A k \in 1..Len(items) : items[k] # 207

(***************************************************************************)
(* Claims about two interleaved requests, checked under SpecConcurrent.    *)
(***************************************************************************)
\* C26: two interleaved ensureIndexed calls fetch disjoint identifiers: the
\* cursor is read and advanced in one step, so the fetches issued so far are
\* strictly ascending (no identifier is fetched twice, by either call), two
\* batches in flight do not overlap, and no entry is indexed twice.
C26_DisjointFetches ==
    /\ \A k \in 2..Len(fetchLog) : fetchLog[k - 1] < fetchLog[k]
    /\ \A c, d \in Calls :
          (c # d /\ pc[c] = "await" /\ pc[d] = "await") =>
             \/ startId[c] + batchSize <= startId[d]
             \/ startId[d] + batchSize <= startId[c]
    /\ Cardinality({items[k] : k \in 1..Len(items)}) = Len(items)

\* both requests have a batch in flight, the second one issued first, and
\* entries of this run are in the index
C26_Witness ==
    /\ Calls = TwoCalls
    /\ pc[1] = "await" /\ pc[2] = "await"
    /\ startId[2] < startId[1]
    /\ issued[1] > 1
    /\ Len(items) > CrawledTo

\* C27: once state.complete is true, no step changes the index or the
\* not-found streak.
C27_FrozenAfterComplete ==
    [][complete => (items' = items /\ notFoundStreak' = notFoundStreak)]_vars

(***************************************************************************)
(* Claims about the sync lock, checked under SpecSync.                     *)
(***************************************************************************)
\* C28: at most one caller of syncOpenAIFiles / syncOpenAIForSelection at a
\* time is inside the section guarded by __fredquiz_openai_sync_lock.
C28_MutualExclusion ==
    Cardinality({c \in SyncCallers : syncPc[c] = "inside"}) <= 1

\* the other half of the sentence: the finally block releases on every exit
\* path, so a caller that awaits the lock gets into the section
WaiterProceeds ==
    \A c \in SyncCallers : (syncPc[c] = "waiting") ~> (syncPc[c] = "inside")

(***************************************************************************)
(* Termination of the crawl, checked under SpecLive.                       *)
(***************************************************************************)
\* C30: every ensureIndexed call returns; against a source of at least 200
\* records, repeated error-free calls with a positive budget latch complete;
\* against a source of fewer than 200 records complete is never latched, a
\* call leaves the loop only with its budget used up (or on an error), and
\* every batch probes identifiers beyond all that were probed before.
C30_EventualCompletion ==
    /\ \A c \in OneCall : (pc[c] # "idle") ~> (pc[c] = "idle")
    /\ (Cardinality(source) >= minIndexedBeforeStop) => <>(complete \/ errors > 0)
    /\ [](Cardinality(source) < minIndexedBeforeStop =>
            /\ ~complete
            /\ \A k \in 2..Len(fetchLog) : fetchLog[k - 1] < fetchLog[k])
    /\ [][ \A c \in OneCall :
             (Cardinality(source) < minIndexedBeforeStop
                /\ pc[c] = "loop" /\ pc'[c] = "idle") =>
                BudgetExceeded(elapsed[c], timeBudgetMs[c]) ]_vars

\* completion latched by the second or a later call, no fetch having failed
C30_Witness ==
    /\ complete /\ errors = 0
    /\ Cardinality(source) >= minIndexedBeforeStop
    /\ pc[1] = "idle" /\ response[1].complete
    /\ response[1].newlyIndexed < Len(items)

=============================================================================
